---- MODULE Spec2Model ----
(***************************************************************************)
(* Clause engine of om-lite: the clause store (create / get / update /     *)
(* invalidate / reinforce / processNewClause / deduplication / conflict    *)
(* resolution) and the decay runner, over the SQLite tables clauses,       *)
(* conflicts, decay_log, access_log and system_metadata.                   *)
(*                                                                         *)
(* Numbers.  confidence, decay_rate and the amounts are REAL in the        *)
(* source; here they are fixed-point integers in units of 1/Scale, so      *)
(* 0.8 is 8000 and 0.0005 is 5.  Timestamps are whole days on the clock    *)
(* `now`; NULL columns are the empty sequence << >> and a set column is    *)
(* the one-element sequence << v >>.                                       *)
(***************************************************************************)
EXTENDS Integers, Sequences, FiniteSets, TLC

VARIABLES clauses, conflicts, decay_log, access_log, sysmeta,
          conflictConfig, dedupConfig, decayConfig, inflight, installed_packs, scheduler,
          now, calls, last

vars == <<clauses, conflicts, decay_log, access_log, sysmeta,
          conflictConfig, dedupConfig, decayConfig, inflight, installed_packs, scheduler,
          now, calls, last>>

(* ------------------------------ bounds -------------------------------- *)

\* A run is at most MaxCalls calls into the engine, spread over MaxTime days.
MaxCalls == 4
MaxTime == 30

(* ------------------------- program constants -------------------------- *)

Scale == 10000

SINGLETON_PREDICATES ==
    {"lives_in", "works_at", "email_address", "phone_number", "uses_for_notes",
     "preferred_language", "timezone", "full_name", "is_located_in",
     "home_address", "primary_calendar"}

MULTI_VALUE_PREDICATES ==
    {"likes", "dislikes", "interested_in", "skilled_at", "knows",
     "speaks_language", "has_hobby", "member_of", "integrates_with",
     "can_perform"}

ClauseTypes ==
    {"fact", "preference", "habit", "skill", "relationship", "intention",
     "context", "correction", "skill_success", "skill_failure",
     "skill_preference"}

DEFAULT_DECAY_RATES(type) ==
    CASE type = "fact" -> 5
      [] type = "preference" -> 20
      [] type = "habit" -> 10
      [] type = "skill" -> 2
      [] type = "relationship" -> 10
      [] type = "intention" -> 100
      [] type = "context" -> 500
      [] type = "correction" -> 10
      [] type = "skill_success" -> 20
      [] type = "skill_failure" -> 100
      [] type = "skill_preference" -> 20
      [] OTHER -> 10

DefaultConfidence == 8000
DefaultReinforceAmount == 500
ProcessMinConfidence == 3000
DefaultMinConfidence == 1000

DEFAULT_CONFLICT_CONFIG ==
    [strategy |-> "merge_history", preserveHistory |-> TRUE]

\* DecayRunner's constructor defaults (defaultRate is read nowhere)
DEFAULT_DECAY_CONFIG == [enabled |-> TRUE, minConfidence |-> DefaultMinConfidence]

DEFAULT_DEDUP_CONFIG ==
    [enabled |-> TRUE, similarityThreshold |-> 8500, useContentHash |-> TRUE,
     useFuzzyMatch |-> TRUE, onDuplicate |-> "reinforce"]

(* --------------------------- value helpers ---------------------------- *)

NULL == << >>
Some(v) == << v >>

Min(a, b) == IF a <= b THEN a ELSE b
Max(a, b) == IF a >= b THEN a ELSE b

\* String.prototype.toLowerCase over the strings the model uses
toLowerCase(s) ==
    CASE s = "Seattle" -> "seattle"
      [] s = "Denver" -> "denver"
      [] s = "User" -> "user"
      [] s = "Tea" -> "tea"
      [] OTHER -> s

EmptyMetadata ==
    [invalidation_reason |-> NULL, archived_reason |-> NULL,
     supersedes |-> << >>, merge_count |-> 0, user |-> << >>]

\* What is left at the place of a row a DELETE removed: ids are never reused.
NoRow == [deleted |-> TRUE]
IsRow(row) == "deleted" \notin DOMAIN row

\* the ids of the rows of a table
RowIds(cl) == {i \in DOMAIN cl : IsRow(cl[i])}

Ids == RowIds(clauses)
ActiveIds == {i \in Ids : clauses[i].valid_to = NULL}

\* One more call of the client: every operation counts as one.
Called == calls < MaxCalls /\ calls' = calls + 1

\* The most recent call: operation, the clause id and argument passed, the
\* action or outcome returned, the id of a clause it created and the id of a
\* further row it names (a conflict, a kept clause); 0 where there is none.
NoCall == [op |-> "none", id |-> 0, arg |-> NULL, action |-> "none",
           newId |-> 0, otherId |-> 0]
Call(op, id, arg, action, newId, otherId) ==
    [op |-> op, id |-> id, arg |-> arg, action |-> action, newId |-> newId,
     otherId |-> otherId]

(* ------------------------- storage constraints ------------------------ *)

\* The table without its CHECK on confidence
ClauseRowOk_NoConfidenceCheck(row) ==
    /\ row.type \in ClauseTypes
    /\ row.decay_rate >= 0

\* CHECK constraints of the clauses table: a statement that would store a
\* row violating them throws and stores nothing.
ClauseRowOk(row) ==
    /\ row.type \in ClauseTypes
    /\ row.confidence >= 0 /\ row.confidence <= Scale
    /\ row.decay_rate >= 0

(* ------------------------------- Init --------------------------------- *)

\* The empty database the schema creates, and the stores' default configs.
\* The scheduled jobs, and the defaults of the Scheduler constructor.
JobIds == {"decay", "backup", "retention"}
DefaultSchedulerConfig ==
    [decayEnabled |-> TRUE, backupEnabled |-> TRUE, retentionEnabled |-> TRUE]

\* A Scheduler after construction: no collaborator set, no timer handle kept,
\* no job, not running.  `timers` holds the timers armed in the host (each
\* setTimeout or setInterval not yet cleared nor, for a timeout, fired) and
\* `handles` counts the handles the host has given out.
NewScheduler ==
    [config |-> DefaultSchedulerConfig,
     decayRunner |-> FALSE, backupManager |-> FALSE, clauseStore |-> FALSE,
     decayTimer |-> NULL, backupTimer |-> NULL, retentionTimer |-> NULL,
     jobs |-> {}, isRunning |-> FALSE,
     timers |-> {}, handles |-> 0]

InitStore ==
    /\ clauses = << >>
    /\ conflicts = << >>
    /\ decay_log = << >>
    /\ access_log = << >>
    /\ sysmeta = [total_clauses_extracted |-> 0, total_conflicts_detected |-> 0,
                  last_decay_run |-> NULL]
    /\ conflictConfig = DEFAULT_CONFLICT_CONFIG
    /\ dedupConfig = DEFAULT_DEDUP_CONFIG
    /\ now = 0
    /\ inflight = << >>
    /\ installed_packs = {}
    /\ scheduler = NewScheduler
    /\ calls = 0
    /\ last = NoCall

Init == InitStore /\ decayConfig = DEFAULT_DECAY_CONFIG

(* ----------------------------- ClauseStore ---------------------------- *)

\* The row ClauseStore.create builds from its input.
NewClauseRow(input) ==
    [type |-> input.type,
     subject |-> input.subject,
     predicate |-> input.predicate,
     object |-> input.object,
     natural_form |-> input.natural_form,
     valid_from |-> now,
     valid_to |-> NULL,
     recorded_at |-> now,
     confidence |-> IF input.confidence = NULL THEN DefaultConfidence
                    ELSE input.confidence[1],
     decay_rate |-> IF input.decay_rate = NULL
                    THEN DEFAULT_DECAY_RATES(input.type)
                    ELSE input.decay_rate[1],
     reinforcement_count |-> 0,
     source_id |-> IF "source_id" \in DOMAIN input THEN input.source_id ELSE "manual",
     extraction_method |-> IF "extraction_method" \in DOMAIN input
                           THEN input.extraction_method ELSE "manual",
     last_accessed |-> now,
     access_count |-> 0,
     tags |-> input.tags,
     metadata |-> [EmptyMetadata EXCEPT !.user = input.metadata]]

NextId == Len(clauses) + 1

\* The store after ClauseStore.create(input) when the INSERT is accepted.
CreateOk(input) == ClauseRowOk(NewClauseRow(input))
AfterCreate(cl, input) == Append(cl, NewClauseRow(input))

\* The row after the access-tracking UPDATE of ClauseStore.get.
Touched(row) ==
    [row EXCEPT !.last_accessed = now, !.access_count = row.access_count + 1]

Create(input) ==
    /\ Called
    /\ IF CreateOk(input)
       THEN /\ clauses' = AfterCreate(clauses, input)
            /\ sysmeta' = [sysmeta EXCEPT !.total_clauses_extracted = @ + 1]
            /\ last' = Call("create", 0, input, "created", NextId, 0)
       ELSE /\ UNCHANGED <<clauses, sysmeta>>
            /\ last' = Call("create", 0, input, "error", 0, 0)
    /\ UNCHANGED <<conflicts, decay_log, access_log, conflictConfig,
                   dedupConfig, decayConfig, scheduler, inflight, installed_packs, now>>

Get(id) ==
    /\ Called
    /\ IF id \in Ids
       THEN /\ clauses' = [clauses EXCEPT ![id] = Touched(@)]
            /\ last' = Call("get", id, NULL, "found", 0, 0)
       ELSE /\ UNCHANGED clauses
            /\ last' = Call("get", id, NULL, "null", 0, 0)
    /\ UNCHANGED <<conflicts, decay_log, access_log, sysmeta, conflictConfig,
                   dedupConfig, decayConfig, scheduler, inflight, installed_packs, now>>

\* update also accepting valid_to
allowedFields_WithValidTo ==
    {"confidence", "decay_rate", "tags", "metadata", "natural_form", "valid_to"}

\* ClauseStore.update: the fields an UPDATE may set.
allowedFields == {"confidence", "decay_rate", "tags", "metadata", "natural_form"}

\* The row after the UPDATE statement of ClauseStore.update.
\* `for (const field of allowedFields) if (field in updates)`: one SET clause
\* for each of `fields`.
RECURSIVE SetFields(_, _, _)
SetFields(row, updates, fields) ==
    IF fields = {} THEN row
    ELSE LET f == CHOOSE g \in fields : TRUE
         IN  SetFields([row EXCEPT ![f] = updates[f]], updates, fields \ {f})

\* an UPDATE setting every key of updates that names a column
ApplyUpdates_AnyColumn(row, updates) ==
    SetFields(row, updates, DOMAIN row \cap DOMAIN updates)

ApplyUpdates(row, updates) ==
    SetFields(row, updates, allowedFields \cap DOMAIN updates)

Update(id, updates) ==
    /\ Called
    /\ IF id \notin Ids
       THEN /\ UNCHANGED clauses
            /\ last' = Call("update", id, updates, "null", 0, 0)
       ELSE LET existing == Touched(clauses[id])
                written == ApplyUpdates(existing, updates)
            IN  IF allowedFields \cap DOMAIN updates = {}
                THEN /\ clauses' = [clauses EXCEPT ![id] = existing]
                     /\ last' = Call("update", id, updates, "unchanged", 0, 0)
                ELSE IF ~ClauseRowOk(written)
                THEN /\ clauses' = [clauses EXCEPT ![id] = existing]
                     /\ last' = Call("update", id, updates, "error", 0, 0)
                ELSE /\ clauses' = [clauses EXCEPT ![id] = Touched(written)]
                     /\ last' = Call("update", id, updates, "updated", 0, 0)
    /\ UNCHANGED <<conflicts, decay_log, access_log, sysmeta, conflictConfig,
                   dedupConfig, decayConfig, scheduler, inflight, installed_packs, now>>

\* The row after the UPDATE statement of ClauseStore.invalidate.
Invalidated(row, reason) ==
    [row EXCEPT !.valid_to = Some(now),
                !.metadata = [@ EXCEPT !.invalidation_reason = Some(reason)]]

AfterInvalidate(cl, id, reason) ==
    IF id \in RowIds(cl) THEN [cl EXCEPT ![id] = Invalidated(@, reason)] ELSE cl

Invalidate(id, reason) ==
    /\ Called
    /\ clauses' = AfterInvalidate(clauses, id, reason)
    /\ last' = Call("invalidate", id, reason, "done", 0, 0)
    /\ UNCHANGED <<conflicts, decay_log, access_log, sysmeta, conflictConfig,
                   dedupConfig, decayConfig, scheduler, inflight, installed_packs, now>>

DecayLogRow(id, previous, new, reason) ==
    [clause_id |-> id, previous_confidence |-> previous,
     new_confidence |-> new, reason |-> reason, occurred_at |-> now]

AccessLogRow(id, accessType, context) ==
    [clause_id |-> id, access_type |-> accessType, context |-> context,
     accessed_at |-> now, was_useful |-> NULL, correction_id |-> NULL]

\* The row after the UPDATE statement of reinforce (both classes).
Reinforced(row, newConfidence) ==
    [row EXCEPT !.confidence = newConfidence,
                !.reinforcement_count = @ + 1,
                !.last_accessed = now,
                !.access_count = @ + 1]

ReinforcedConfidence(confidence, amount) == Min(Scale, confidence + amount)

\* reinforce: newConfidence is computed from the clause object that get()
\* returned before the await, not from the row the UPDATE writes.
ReinforceBase(row, clause) == clause.confidence

\* The part of ClauseStore.reinforce after `await this.get(id)`: cl holds the
\* row as it is now, clause is what get() returned.  ok is FALSE when the
\* UPDATE violates a CHECK and throws.
ReinforceWrite(cl, dl, al, id, clause, amount) ==
    LET newConfidence == ReinforcedConfidence(ReinforceBase(cl[id], clause), amount)
        written == Reinforced(cl[id], newConfidence)
    IN  IF ClauseRowOk(written)
        THEN [ok |-> TRUE,
              clauses |-> [cl EXCEPT ![id] = written],
              decay_log |-> Append(dl, DecayLogRow(id, clause.confidence,
                                                   newConfidence, "reinforcement")),
              access_log |-> Append(al, AccessLogRow(id, "reinforcement",
                                                     "successful_use"))]
        ELSE [ok |-> FALSE,
              clauses |-> cl,
              decay_log |-> dl,
              access_log |-> al]

\* ClauseStore.reinforce on an existing id run to completion, as a change of
\* the three tables.
ReinforceEffect(cl, dl, al, id, amount) ==
    ReinforceWrite([cl EXCEPT ![id] = Touched(@)], dl, al, id, cl[id], amount)

Reinforce(id, amount) ==
    /\ Called
    /\ IF id \notin Ids
       THEN /\ UNCHANGED <<clauses, decay_log, access_log>>
            /\ last' = Call("reinforce", id, amount, "null", 0, 0)
       ELSE LET e == ReinforceEffect(clauses, decay_log, access_log, id, amount)
            IN  /\ clauses' = e.clauses
                /\ decay_log' = e.decay_log
                /\ access_log' = e.access_log
                /\ last' = Call("reinforce", id, amount,
                                IF e.ok THEN "reinforced" ELSE "error", 0, 0)
    /\ UNCHANGED <<conflicts, sysmeta, conflictConfig, dedupConfig, decayConfig, scheduler, inflight, installed_packs, now>>

\* The calls of reinforce that are suspended at `await this.get(id)`, in the
\* order their continuations run; `ahead` lists the calls on the same clause
\* that were suspended when this one started.
InFlightOn(id) ==
    SelectSeq(inflight, LAMBDA p : p.id = id)

AheadOf(id) ==
    [i \in 1..Len(InFlightOn(id)) |->
        [amount |-> InFlightOn(id)[i].amount, clause |-> InFlightOn(id)[i].clause]]

\* reinforce up to its await: get(id) has read the row and bumped its access
\* tracking.
ReinforceBegin(id, amount) ==
    /\ Called
    /\ clauses' = [clauses EXCEPT ![id] = Touched(@)]
    /\ inflight' = Append(inflight, [id |-> id, amount |-> amount,
                                     clause |-> clauses[id], ahead |-> AheadOf(id)])
    /\ last' = Call("reinforce.begin", id, amount, "awaiting", 0, 0)
    /\ UNCHANGED <<conflicts, decay_log, access_log, sysmeta, conflictConfig,
                   dedupConfig, decayConfig, scheduler, installed_packs, now>>

\* the continuation of the oldest suspended reinforce: UPDATE and the two logs
ReinforceEnd ==
    /\ inflight # << >>
    /\ LET p == Head(inflight)
           e == ReinforceWrite(clauses, decay_log, access_log, p.id, p.clause, p.amount)
       IN  /\ clauses' = e.clauses
           /\ decay_log' = e.decay_log
           /\ access_log' = e.access_log
           /\ last' = Call("reinforce.end", p.id, p.amount,
                           IF e.ok THEN "reinforced" ELSE "error", 0, 0)
    /\ inflight' = Tail(inflight)
    /\ UNCHANGED <<conflicts, sysmeta, conflictConfig, dedupConfig, decayConfig, scheduler,
                   installed_packs, now, calls>>

(* ------------------ ingestion: conflicts, deduplication --------------- *)

\* analyzeRelation without its multi-value case
analyzeRelation_NoMultiValue(old, input) ==
    IF toLowerCase(old.object) = toLowerCase(input.object) THEN "identical"
    ELSE IF old.predicate \in SINGLETON_PREDICATES THEN "supersession"
    ELSE "contradiction"

analyzeRelation(old, input) ==
    IF toLowerCase(old.object) = toLowerCase(input.object) THEN "identical"
    ELSE IF old.predicate \in SINGLETON_PREDICATES THEN "supersession"
    ELSE IF old.predicate \in MULTI_VALUE_PREDICATES THEN "coexistent"
    ELSE "contradiction"

\* The rows of processNewClause's SELECT.
ExistingFor(cl, input) ==
    {i \in RowIds(cl) :
        /\ cl[i].subject = input.subject
        /\ cl[i].predicate = input.predicate
        /\ cl[i].valid_to = NULL
        /\ cl[i].confidence > ProcessMinConfidence}

NewConflict(a, b) ==
    [clause_a_id |-> a, clause_b_id |-> b, conflict_type |-> "contradiction",
     status |-> "pending", resolution |-> NULL, resolved_at |-> NULL,
     detected_at |-> now]

\* The tables processNewClause reads and writes, as one value
Tables(cl, cf, dl, al, sm) ==
    [clauses |-> cl, conflicts |-> cf, decay_log |-> dl, access_log |-> al,
     sysmeta |-> sm]

\* what processNewClause did and returned, with the tables it left
Outcome(st, old, action, newId, otherId) ==
    [st |-> st, id |-> old, action |-> action, newId |-> newId, otherId |-> otherId]

\* processNewClause(input) where `old` is the row of its SELECT that decides
\* (0: the SELECT is empty)
ProcessOutcome(st, input, old) ==
    LET newId == Len(st.clauses) + 1
        created == AfterCreate(st.clauses, input)
        counted == [st.sysmeta EXCEPT !.total_clauses_extracted = @ + 1]
        inserted == IF CreateOk(input)
                    THEN Outcome([st EXCEPT !.clauses = created, !.sysmeta = counted],
                                 0, "insert", newId, 0)
                    ELSE Outcome(st, 0, "error", 0, 0)
        relation == analyzeRelation(st.clauses[old], input)
    IN  IF old = 0 THEN inserted
        ELSE CASE relation = "identical" ->
                    LET e == ReinforceEffect(st.clauses, st.decay_log, st.access_log,
                                             old, DefaultReinforceAmount)
                    IN  Outcome([st EXCEPT !.clauses = e.clauses,
                                           !.decay_log = e.decay_log,
                                           !.access_log = e.access_log],
                                old, "reinforced", 0, 0)
               [] relation = "supersession" ->
                    LET invalidated == AfterInvalidate(st.clauses, old, "superseded")
                    IN  IF CreateOk(input)
                        THEN Outcome([st EXCEPT !.clauses = AfterCreate(invalidated, input),
                                                !.sysmeta = counted],
                                     old, "superseded", newId, 0)
                        ELSE Outcome([st EXCEPT !.clauses = invalidated],
                                     old, "error", 0, 0)
               [] relation = "contradiction" ->
                    IF CreateOk(input)
                    THEN Outcome([st EXCEPT
                                    !.clauses = created,
                                    !.conflicts = Append(@, NewConflict(old, newId)),
                                    !.sysmeta = [counted EXCEPT
                                                   !.total_conflicts_detected = @ + 1]],
                                 old, "conflict", newId, Len(st.conflicts) + 1)
                    ELSE Outcome(st, old, "error", 0, 0)
               [] OTHER -> inserted

\* The SELECT has no ORDER BY and the loop returns in its first iteration, so
\* the row that decides is any row of the result.
ProcessOutcomes(st, input) ==
    LET existing == ExistingFor(st.clauses, input)
    IN  IF existing = {} THEN {ProcessOutcome(st, input, 0)}
        ELSE {ProcessOutcome(st, input, old) : old \in existing}

\* processNewClause(input), recorded in `last` as the call op.
ProcessBody(op, input) ==
    \E r \in ProcessOutcomes(Tables(clauses, conflicts, decay_log, access_log, sysmeta),
                             input) :
        /\ clauses' = r.st.clauses
        /\ conflicts' = r.st.conflicts
        /\ decay_log' = r.st.decay_log
        /\ access_log' = r.st.access_log
        /\ sysmeta' = r.st.sysmeta
        /\ last' = Call(op, r.id, input, r.action, r.newId, r.otherId)

ProcessNewClause(input) ==
    /\ Called
    /\ ProcessBody("processNewClause", input)
    /\ UNCHANGED <<conflictConfig, dedupConfig, decayConfig, scheduler, inflight, installed_packs, now>>

\* The token set calculateSimilarity builds: case-folded words longer than 2.
MinTokenLength == 2
Tokens(words) ==
    {toLowerCase(words[k]) : k \in {j \in DOMAIN words : Len(words[j]) > MinTokenLength}}

\* Jaccard index of the two token sets, in units of 1/Scale
calculateSimilarity(a, b) ==
    LET wordsA == Tokens(a)
        wordsB == Tokens(b)
    IN  IF wordsA = {} /\ wordsB = {} THEN Scale
        ELSE IF wordsA = {} \/ wordsB = {} THEN 0
        ELSE (Cardinality(wordsA \cap wordsB) * Scale)
                \div Cardinality(wordsA \cup wordsB)

\* The full-text index (an external collaborator): a row matches the query
\* built from the first FtsQueryWords words of the candidate's natural_form
\* when each of them occurs, case-folded, in one of its indexed columns.
FtsQueryWords == 5
FtsLimit == 5
FirstWords(words) == {toLowerCase(words[k]) : k \in {j \in DOMAIN words : j <= FtsQueryWords}}
IndexedWords(row) ==
    {toLowerCase(row.natural_form[k]) : k \in DOMAIN row.natural_form}
        \cup {toLowerCase(row.subject), toLowerCase(row.predicate),
              toLowerCase(row.object)}
FtsMatches(cl, input) ==
    {i \in RowIds(cl) :
        /\ cl[i].valid_to = NULL
        /\ FirstWords(input.natural_form) \subseteq IndexedWords(cl[i])}

\* the comparison against similarityThreshold left out
Similar_Any(cl, cfg, i, input) == TRUE

Similar(cl, cfg, i, input) ==
    calculateSimilarity(cl[i].natural_form, input.natural_form)
        >= cfg.similarityThreshold

NoDuplicate == [found |-> FALSE, id |-> 0, matchType |-> "none"]
Duplicate(i, matchType) == [found |-> TRUE, id |-> i, matchType |-> matchType]

\* Every result findDuplicate(input) can return; there are several only
\* where the result depends on the order of rows of a SELECT without ORDER BY.
findDuplicate(cl, cfg, input) ==
    LET exact == {i \in RowIds(cl) :
                    /\ cl[i].valid_to = NULL
                    /\ cl[i].subject = input.subject
                    /\ cl[i].predicate = input.predicate
                    /\ cl[i].object = input.object}
        candidates == {i \in ExistingFor(cl, input) : Similar(cl, cfg, i, input)}
        matches == FtsMatches(cl, input)
        pages == {T \in SUBSET matches :
                    Cardinality(T) = Min(FtsLimit, Cardinality(matches))}
        ftsResults == {i \in matches :
                        /\ Similar(cl, cfg, i, input)
                        /\ \E T \in pages : i \in T}
    IN  IF ~cfg.enabled THEN {NoDuplicate}
        ELSE IF cfg.useContentHash /\ exact # {}
        THEN {Duplicate(i, "exact") : i \in exact}
        ELSE IF cfg.useFuzzyMatch /\ candidates # {}
        THEN {Duplicate(i, "fuzzy") : i \in candidates}
        ELSE IF cfg.useFuzzyMatch /\ ftsResults # {}
        THEN {Duplicate(i, "fuzzy") : i \in ftsResults}
        ELSE {NoDuplicate}

\* findDuplicate(input) called by a client: a query, nothing is written.
FindDuplicate(input) ==
    /\ Called
    /\ \E dupCheck \in findDuplicate(clauses, dedupConfig, input) :
          last' = Call("findDuplicate", dupCheck.id, input, dupCheck.matchType, 0, 0)
    /\ UNCHANGED <<clauses, conflicts, decay_log, access_log, sysmeta,
                   conflictConfig, dedupConfig, decayConfig, scheduler, inflight, installed_packs, now>>

MergeReinforceAmount == 300

\* { ...a, ...b }
Spread(a, b) ==
    [k \in DOMAIN a \cup DOMAIN b |-> IF k \in DOMAIN b THEN b[k] ELSE a[k]]

\* merge keeping the candidate's metadata alone
MergedMetadata_CandidateOnly(metadata, input) ==
    [metadata EXCEPT !.user = input.metadata, !.merge_count = @ + 1]

MergedMetadata(metadata, input) ==
    [metadata EXCEPT !.user = Spread(@, input.metadata), !.merge_count = @ + 1]

\* The store after a successful update(id, updates) naming an allowed field.
AfterUpdate(cl, id, updates) ==
    [cl EXCEPT ![id] = Touched(ApplyUpdates(Touched(@), updates))]

ProcessWithDeduplication(input) ==
    /\ Called
    /\ \E dupCheck \in findDuplicate(clauses, dedupConfig, input) :
        IF dupCheck.found
        THEN /\ CASE dedupConfig.onDuplicate = "reinforce" ->
                       LET e == ReinforceEffect(clauses, decay_log, access_log,
                                                dupCheck.id, DefaultReinforceAmount)
                       IN  /\ clauses' = e.clauses
                           /\ decay_log' = e.decay_log
                           /\ access_log' = e.access_log
                           /\ last' = Call("processWithDeduplication", dupCheck.id,
                                           input, "reinforced", 0, 0)
                  [] dedupConfig.onDuplicate = "skip" ->
                       /\ UNCHANGED <<clauses, decay_log, access_log>>
                       /\ last' = Call("processWithDeduplication", dupCheck.id,
                                       input, "skipped", 0, 0)
                  [] OTHER ->
                       LET merged == MergedMetadata(clauses[dupCheck.id].metadata, input)
                           updated == AfterUpdate(clauses, dupCheck.id,
                                                  [metadata |-> merged])
                           e == ReinforceEffect(updated, decay_log, access_log,
                                                dupCheck.id, MergeReinforceAmount)
                       IN  /\ clauses' = e.clauses
                           /\ decay_log' = e.decay_log
                           /\ access_log' = e.access_log
                           /\ last' = Call("processWithDeduplication", dupCheck.id,
                                           input, "reinforced", 0, 0)
             /\ UNCHANGED <<conflicts, sysmeta>>
        ELSE ProcessBody("processWithDeduplication", input)
    /\ UNCHANGED <<conflictConfig, dedupConfig, decayConfig, scheduler, inflight, installed_packs, now>>

setDeduplicationConfig(config) ==
    /\ dedupConfig' = Spread(dedupConfig, config)
    /\ dedupConfig' # dedupConfig
    /\ last' = NoCall
    /\ UNCHANGED <<clauses, conflicts, decay_log, access_log, sysmeta,
                   conflictConfig, decayConfig, scheduler, inflight, installed_packs, now, calls>>

setConflictConfig(config) ==
    /\ conflictConfig' = Spread(conflictConfig, config)
    /\ conflictConfig' # conflictConfig
    /\ last' = NoCall
    /\ UNCHANGED <<clauses, conflicts, decay_log, access_log, sysmeta,
                   dedupConfig, decayConfig, scheduler, inflight, installed_packs, now, calls>>

(* -------------------------- conflict resolution ----------------------- *)

PendingConflicts == {c \in DOMAIN conflicts : conflicts[c].status = "pending"}

\* highest_confidence keeping the lower confidence
KeptClause_LowestConfidence(cl, a, b, useStrategy) ==
    IF useStrategy = "highest_confidence"
    THEN IF cl[a].confidence <= cl[b].confidence THEN a ELSE b
    ELSE IF cl[a].recorded_at > cl[b].recorded_at THEN a ELSE b

\* newest_wins and merge_history keeping the clause recorded first
KeptClause_Oldest(cl, a, b, useStrategy) ==
    IF useStrategy = "highest_confidence"
    THEN IF cl[a].confidence >= cl[b].confidence THEN a ELSE b
    ELSE IF cl[a].recorded_at < cl[b].recorded_at THEN a ELSE b

\* The clause resolveConflict keeps, a or b, under a strategy other than manual.
KeptClause(cl, a, b, useStrategy) ==
    IF useStrategy = "highest_confidence"
    THEN IF cl[a].confidence >= cl[b].confidence THEN a ELSE b
    ELSE IF cl[a].recorded_at > cl[b].recorded_at THEN a ELSE b

Resolution(useStrategy, kept, invalidated) ==
    CASE useStrategy = "newest_wins" -> "newest_wins: kept " \o ToString(kept)
      [] useStrategy = "highest_confidence" ->
            "highest_confidence: kept " \o ToString(kept)
      [] OTHER -> "merge_history: kept " \o ToString(kept)
                    \o ", archived " \o ToString(invalidated)

ResolvedConflict(conflict, resolution) ==
    [conflict EXCEPT !.status = "auto_resolved", !.resolution = Some(resolution),
                     !.resolved_at = Some(now)]

\* get(id) on a store: the access-tracking UPDATE when the row exists
AfterGet(cl, id) == IF id \in RowIds(cl) THEN [cl EXCEPT ![id] = Touched(@)] ELSE cl

\* the guard of resolveConflict without its test of the status
Resolvable_AnyStatus(cf, conflictId) == conflictId \in DOMAIN cf

\* resolveConflict goes on when the conflict row exists and is pending
Resolvable(cf, conflictId) ==
    conflictId \in DOMAIN cf /\ cf[conflictId].status = "pending"

\* resolveConflict(conflictId, strategy) as a change of clauses and conflicts,
\* with the values it returns.
ResolveEffect(cl, cf, cfg, conflictId, strategy) ==
    LET useStrategy == IF strategy = NULL THEN cfg.strategy ELSE strategy[1] IN
    IF ~Resolvable(cf, conflictId)
    THEN [clauses |-> cl, conflicts |-> cf, resolved |-> FALSE,
          action |-> "not_found_or_already_resolved", kept |-> 0]
    ELSE
    LET a == cf[conflictId].clause_a_id
        b == cf[conflictId].clause_b_id
        got == AfterGet(AfterGet(cl, a), b)
    IN  IF a \notin RowIds(cl) \/ b \notin RowIds(cl)
        THEN [clauses |-> got,
              conflicts |-> [cf EXCEPT ![conflictId] =
                                ResolvedConflict(@, "clause_deleted")],
              resolved |-> TRUE, action |-> "clause_deleted",
              kept |-> IF a \in RowIds(cl) THEN a
                       ELSE IF b \in RowIds(cl) THEN b ELSE 0]
        ELSE IF useStrategy = "manual"
        THEN [clauses |-> got, conflicts |-> cf, resolved |-> FALSE,
              action |-> "requires_manual_resolution", kept |-> 0]
        ELSE
        LET kept == KeptClause(cl, a, b, useStrategy)
            invalidated == IF kept = a THEN b ELSE a
            resolution == Resolution(useStrategy, kept, invalidated)
            afterInvalidate ==
                AfterInvalidate(got, invalidated, "superseded_by:" \o ToString(kept))
            metadata == [cl[kept].metadata EXCEPT
                            !.supersedes = Append(@, invalidated)]
            linked == IF cfg.preserveHistory
                      THEN AfterUpdate(afterInvalidate, kept, [metadata |-> metadata])
                      ELSE afterInvalidate
        IN  [clauses |-> linked,
             conflicts |-> [cf EXCEPT ![conflictId] = ResolvedConflict(@, resolution)],
             resolved |-> TRUE, action |-> resolution, kept |-> kept]

ResolveConflict(conflictId, strategy) ==
    /\ Called
    /\ LET e == ResolveEffect(clauses, conflicts, conflictConfig, conflictId, strategy)
       IN  /\ clauses' = e.clauses
           /\ conflicts' = e.conflicts
           /\ last' = Call("resolveConflict", conflictId, strategy, e.action, 0, e.kept)
    /\ UNCHANGED <<decay_log, access_log, sysmeta, conflictConfig, dedupConfig, decayConfig, scheduler, inflight, installed_packs, now>>

\* The orders in which getPendingConflicts can return the pending conflicts:
\* detected_at descending, rows of one detected_at in any order.
PendingOrders(cf) ==
    LET pending == {c \in DOMAIN cf : cf[c].status = "pending"}
        n == Cardinality(pending)
    IN  {o \in [1..n -> pending] :
            /\ \A i, j \in 1..n : i # j => o[i] # o[j]
            /\ \A i, j \in 1..n :
                  i < j => cf[o[i]].detected_at >= cf[o[j]].detected_at}

\* the loop of resolveAllConflicts stopping at the first exception
AfterError_Abort(rest) == << >>

\* resolveAllConflicts: `catch { errors++ }`, then the loop goes on with the
\* remaining conflicts.
AfterError(rest) == rest

\* The statements of resolveConflict at which a database error is raised:
\* its first SELECT, or its last UPDATE of the conflict row.
FaultPoints == {"select", "mark"}

\* The loop of resolveAllConflicts over the conflicts of `order`.  st holds
\* the tables and the three counters.  For the conflicts in `faults` the
\* statement `point` of resolveConflict throws: at "select" nothing has been
\* written; at "mark" the clause rows are written and the conflict row is
\* not, and a call that returns before that statement does not throw.
RECURSIVE ResolveAllFrom(_, _, _, _, _)
ResolveAllFrom(order, st, strategy, faults, point) ==
    IF order = << >> THEN st
    ELSE
    LET e == ResolveEffect(st.clauses, st.conflicts, conflictConfig,
                           Head(order), strategy)
    IN  IF Head(order) \in faults /\ point = "select"
        THEN ResolveAllFrom(AfterError(Tail(order)),
                            [st EXCEPT !.errors = @ + 1], strategy, faults, point)
        ELSE IF Head(order) \in faults /\ e.resolved
        THEN ResolveAllFrom(AfterError(Tail(order)),
                            [st EXCEPT !.clauses = e.clauses, !.errors = @ + 1],
                            strategy, faults, point)
        ELSE ResolveAllFrom(Tail(order),
                 [clauses |-> e.clauses, conflicts |-> e.conflicts,
                  resolved |-> st.resolved + (IF e.resolved THEN 1 ELSE 0),
                  skipped |-> st.skipped + (IF e.resolved THEN 0 ELSE 1),
                  errors |-> st.errors],
                 strategy, faults, point)

ResolveAllConflicts(strategy, faults, point) ==
    /\ Called
    /\ faults \subseteq PendingConflicts
    /\ \E order \in PendingOrders(conflicts) :
          LET r == ResolveAllFrom(order,
                       [clauses |-> clauses, conflicts |-> conflicts,
                        resolved |-> 0, skipped |-> 0, errors |-> 0],
                       strategy, faults, point)
          IN  /\ clauses' = r.clauses
              /\ conflicts' = r.conflicts
              /\ last' = Call("resolveAllConflicts", 0,
                              [strategy |-> strategy, faults |-> faults, point |-> point,
                               report |-> [resolved |-> r.resolved,
                                           skipped |-> r.skipped,
                                           errors |-> r.errors]],
                              "report", 0, 0)
    /\ UNCHANGED <<decay_log, access_log, sysmeta, conflictConfig, dedupConfig,
                   decayConfig, scheduler, inflight, installed_packs, now>>

(* -------------------------------- search ------------------------------ *)

DefaultSearchLimit == 20

\* search('', options): the ids returned.  Rows are ordered by confidence,
\* descending (the default orderBy); rows of equal confidence in id order.
SearchEmpty(cl, types, minConfidence, includeExpired, limit, offset) ==
    LET matching == {i \in RowIds(cl) :
                        /\ includeExpired \/ cl[i].valid_to = NULL
                        /\ minConfidence > 0 => cl[i].confidence >= minConfidence
                        /\ types # {} => cl[i].type \in types}
        rank(i) == Cardinality({j \in matching :
                        \/ cl[j].confidence > cl[i].confidence
                        \/ cl[j].confidence = cl[i].confidence /\ j < i})
    IN  {i \in matching : rank(i) >= offset /\ rank(i) < offset + limit}

(* ------------------------------ Retriever ----------------------------- *)

DefaultSemanticWeight == 6000
DefaultKeywordWeight == 3000
DefaultRecencyWeight == 1000
DefaultLimit == 20
RetrieveMinConfidence == 5000
MinSimilarity == 3000
ConfidenceWeight == 2000
MatchBonus == 500
RecencyDays == 30
BmDivisor == 10
MinFtsWordLength == 1

\* retrieve's options after destructuring with its defaults
DefaultRetrievalOptions ==
    [types |-> NULL, minConfidence |-> RetrieveMinConfidence,
     includeExpired |-> FALSE, limit |-> DefaultLimit, boostRecent |-> FALSE,
     semanticWeight |-> DefaultSemanticWeight, keywordWeight |-> DefaultKeywordWeight]

\* The WHERE clauses keywordSearch adds for the options
Filtered(cl, options) ==
    {i \in RowIds(cl) :
        /\ cl[i].confidence >= options.minConfidence
        /\ options.includeExpired \/ cl[i].valid_to = NULL
        /\ (options.types # NULL /\ options.types[1] # {})
              => cl[i].type \in options.types[1]}

\* prepareFtsQuery: the words longer than one character, joined by OR (one
\* word: a prefix query)
FtsWords(query) ==
    {toLowerCase(query[k]) : k \in {j \in DOMAIN query : Len(query[j]) > MinFtsWordLength}}

\* The full-text index (an external collaborator): bm25 is negative, and more
\* negative the more of the query's words a row holds.
Bm25(row, query) ==
    0 - Cardinality(FtsWords(query) \cap IndexedWords(row)) * Scale

\* `score` of a row of keywordSearch: `1.0 as score` without a query
RowScore(cl, query, i) == IF query = << >> THEN Scale ELSE Bm25(cl[i], query)

KeywordRows(cl, query, options) ==
    IF query = << >> THEN Filtered(cl, options)
    ELSE {i \in Filtered(cl, options) : FtsWords(query) \cap IndexedWords(cl[i]) # {}}

\* ORDER BY of keywordSearch: i strictly before j
KeywordBefore(cl, query, i, j) ==
    IF query = << >>
    THEN \/ cl[i].confidence > cl[j].confidence
         \/ /\ cl[i].confidence = cl[j].confidence
            /\ cl[i].last_accessed > cl[j].last_accessed
    ELSE Bm25(cl[i], query) < Bm25(cl[j], query)

\* The row lists keywordSearch can return: the ORDER BY, rows it does not
\* order in any order, LIMIT limit.
KeywordOrders(cl, query, options, limit) ==
    LET rows == KeywordRows(cl, query, options)
        n == Cardinality(rows)
        all == {o \in [1..n -> rows] :
                  /\ \A a, b \in 1..n : a # b => o[a] # o[b]
                  /\ \A a, b \in 1..n :
                        a < b => ~KeywordBefore(cl, query, o[b], o[a])}
    IN  {SubSeq(o, 1, Min(limit, n)) : o \in all}

Range(seq) == {seq[k] : k \in DOMAIN seq}

\* The entries mergeAndScore adds to its Map for semantic results that are
\* not keyword rows: fetched by id alone.
SemanticOnly(cl, keywordIds, semanticResults) ==
    SelectSeq(semanticResults,
              LAMBDA r : r.clauseId \notin Range(keywordIds) /\ r.clauseId \in RowIds(cl))

SemanticScore(semanticResults, i) ==
    IF \E k \in DOMAIN semanticResults : semanticResults[k].clauseId = i
    THEN semanticResults[CHOOSE k \in DOMAIN semanticResults :
                            /\ semanticResults[k].clauseId = i
                            /\ \A m \in DOMAIN semanticResults :
                                  semanticResults[m].clauseId = i => m <= k].similarity
    ELSE 0

\* predicate.replace(/_/g, ' ') as words
PredicateWords(predicate) ==
    IF predicate = "lives_in" THEN <<"lives", "in">> ELSE <<predicate>>

\* queryLower.includes(text), text given as words
Includes(query, words) ==
    \E k \in 0..Len(query) :
        /\ k + Len(words) <= Len(query)
        /\ \A m \in DOMAIN words : toLowerCase(query[k + m]) = toLowerCase(words[m])

Weighted(value, weight) == (value * weight) \div Scale

\* The score mergeAndScore gives clause i
ClauseScore(cl, query, weights, keywordIds, semanticResults, i) ==
    LET row == cl[i]
        keywordScore == IF i \in Range(keywordIds)
                        THEN Max(0, Scale + RowScore(cl, query, i) \div BmDivisor)
                        ELSE 0
        semanticScore == SemanticScore(semanticResults, i)
        daysSinceAccess == now - row.last_accessed
        recencyScore == Max(0, Scale - (daysSinceAccess * Scale) \div RecencyDays)
        words == Tokens(query) \cap {toLowerCase(row.natural_form[k]) :
                                        k \in DOMAIN row.natural_form}
        score == Weighted(semanticScore, weights.semanticWeight)
                 + Weighted(keywordScore, weights.keywordWeight)
                 + Weighted(row.confidence, ConfidenceWeight)
                 + (IF weights.recencyWeight > 0
                    THEN Weighted(recencyScore, weights.recencyWeight) ELSE 0)
                 + Cardinality(words) * MatchBonus
                 + (IF Includes(query, <<row.subject>>) THEN MatchBonus ELSE 0)
                 + (IF Includes(query, PredicateWords(row.predicate))
                    THEN MatchBonus ELSE 0)
    IN  Min(Scale, score)

SortedByScore_Insertion(entries) == entries

\* scoredClauses.sort((a, b) => b.score - a.score): a stable sort of the Map's
\* entries, given in insertion order, as [id, score] records
SortedByScore(entries) ==
    LET n == Len(entries)
        rank(k) == Cardinality({m \in 1..n :
                      \/ entries[m].score > entries[k].score
                      \/ entries[m].score = entries[k].score /\ m < k}) + 1
    IN  SubSeq([r \in 1..n |-> entries[CHOOSE k \in 1..n : rank(k) = r]], 1, n)

RECURSIVE ClauseIds(_)
ClauseIds(results) ==
    IF results = << >> THEN << >>
    ELSE <<Head(results).clauseId>> \o ClauseIds(Tail(results))

\* `for (... of clauseScores.values())`: one scored clause for each id
RECURSIVE ScoreAll(_, _, _, _, _, _)
ScoreAll(cl, query, weights, keywordIds, semanticResults, ids) ==
    IF ids = << >> THEN << >>
    ELSE <<[id |-> Head(ids),
            score |-> ClauseScore(cl, query, weights, keywordIds,
                                  semanticResults, Head(ids))]>>
         \o ScoreAll(cl, query, weights, keywordIds, semanticResults, Tail(ids))

\* mergeAndScore(keywordResults, semanticResults, query, weights)
mergeAndScore(cl, keywordIds, semanticResults, query, weights) ==
    LET inserted == keywordIds
                    \o ClauseIds(SemanticOnly(cl, keywordIds, semanticResults))
    IN  SortedByScore(ScoreAll(cl, query, weights, keywordIds,
                               semanticResults, inserted))

\* scored.slice(0, limit)
TopResults(scored, limit) == SubSeq(scored, 1, Min(limit, Len(scored)))

\* `for (const result of topResults) await this.logAccess(...)`
LoggedResults_Candidates(top, scored) == scored

LoggedResults(top, scored) == top

\* retrieve awaits findSimilar with no try/catch: its exception is retrieve's
SemanticFailure(semantic) == semantic.kind = "throws"

\* retrieve(query, options) where the embedding collaborator answers
\* `semantic`: unavailable (no provider), a result list, or an exception.
Retrieve(query, options, semantic) ==
    /\ Called
    /\ LET canUseSemanticSearch == semantic.kind # "unavailable"
                                      /\ options.semanticWeight > 0
           called == canUseSemanticSearch /\ query # << >>
           semanticResults == IF called THEN semantic.results ELSE << >>
           weights == [semanticWeight |-> IF canUseSemanticSearch
                                          THEN options.semanticWeight ELSE 0,
                       keywordWeight |-> IF canUseSemanticSearch
                                         THEN options.keywordWeight
                                         ELSE options.keywordWeight
                                                 + options.semanticWeight,
                       recencyWeight |-> IF options.boostRecent
                                         THEN DefaultRecencyWeight ELSE 0]
       IN  \E keywordIds \in KeywordOrders(clauses, query, options, options.limit * 2) :
             LET scored == mergeAndScore(clauses, keywordIds, semanticResults,
                                         query, weights)
                 top == TopResults(scored, options.limit)
                 logged == LoggedResults(top, scored)
                 arg == [query |-> query, options |-> options, semantic |-> semantic,
                         keyword |-> keywordIds, scored |-> scored]
             IN  IF called /\ SemanticFailure(semantic)
                 THEN /\ UNCHANGED <<clauses, access_log>>
                      /\ last' = Call("retrieve", 0, [arg EXCEPT !.scored = << >>],
                                      "error", 0, 0)
                 ELSE /\ clauses' = [i \in DOMAIN clauses |->
                                       IF \E k \in DOMAIN logged : logged[k].id = i
                                       THEN Touched(clauses[i]) ELSE clauses[i]]
                      /\ access_log' = access_log
                            \o [k \in DOMAIN logged |->
                                  AccessLogRow(logged[k].id, "retrieval", query)]
                      /\ last' = Call("retrieve", 0, [arg EXCEPT !.scored = top],
                                      IF canUseSemanticSearch THEN "hybrid"
                                      ELSE "keyword", 0, Len(scored))
    /\ UNCHANGED <<conflicts, decay_log, sysmeta, conflictConfig, dedupConfig,
                   decayConfig, scheduler, inflight, installed_packs, now>>

(* ----------------------------- DecayRunner ---------------------------- *)

\* DecayRunner's config is fixed by its constructor (the variable
\* decayConfig, DEFAULT_DECAY_CONFIG when the caller gives none).

DecayEpsilon == 10
DaysPerTimeFactor == 30

\* Math.log(n + 1), in units of 1/Scale
LnPlusOne(n) ==
    CASE n = 0 -> 0
      [] n = 1 -> 6931
      [] n = 2 -> 10986
      [] n = 3 -> 13863
      [] n = 4 -> 16094
      [] n = 5 -> 17918
      [] n = 6 -> 19459
      [] OTHER -> 20794

\* run(): decayAmount = confidence * effectiveDecayRate * timeFactor is the
\* fraction DecayNumerator / DecayDenominator of one confidence unit.
DaysSinceAccess(row) == Max(0, now - row.last_accessed)
DecayNumerator(row) == row.confidence * row.decay_rate * DaysSinceAccess(row)
\* the time factor in days, not in periods of 30 days
DecayDenominator_PerDay(row) == Scale + LnPlusOne(row.reinforcement_count)

DecayDenominator(row) ==
    DaysPerTimeFactor * (Scale + LnPlusOne(row.reinforcement_count))

\* the decay amount added, not subtracted
DecayedConfidence_Adding(row) ==
    Min(Scale, row.confidence + (DecayNumerator(row) \div DecayDenominator(row)))

\* newConfidence, rounded to the confidence unit
DecayedConfidence(row) ==
    Max(0, row.confidence - (DecayNumerator(row) \div DecayDenominator(row)))

\* the clauses run() selects
DecaySelected(row) ==
    IsRow(row) /\ row.valid_to = NULL /\ row.confidence > decayConfig.minConfidence

\* num / den > k, exactly, for den > 0
FractionAbove(num, den, k) ==
    \/ num \div den > k
    \/ num \div den = k /\ num % den > 0

\* newConfidence <= minConfidence
DecayArchives_Inclusive(row) ==
    DecayNumerator(row) \div DecayDenominator(row)
        >= row.confidence - decayConfig.minConfidence

\* newConfidence < minConfidence
DecayArchives(row) ==
    FractionAbove(DecayNumerator(row), DecayDenominator(row),
                  row.confidence - decayConfig.minConfidence)

\* newConfidence < confidence - 0.001
DecayApplies(row) ==
    FractionAbove(DecayNumerator(row), DecayDenominator(row), DecayEpsilon)

\* The row after the UPDATE statement of archiveClause.
Archived(row, finalConfidence) ==
    [row EXCEPT !.valid_to = Some(now),
                !.confidence = finalConfidence,
                !.metadata = [@ EXCEPT !.archived_reason = Some("confidence_decay")]]

\* archiveClause logs the confidence it reads back after its own UPDATE.
ArchiveLogRow(id, finalConfidence) ==
    DecayLogRow(id, finalConfidence, finalConfidence, "archived_decay")

\* What run(dryRun = false) does to one row.
DecayStep(row) ==
    IF ~DecaySelected(row) THEN "skip"
    ELSE IF DecayArchives(row) THEN "archive"
    ELSE IF DecayApplies(row) THEN "decay"
    ELSE "keep"

DecayRow(row) ==
    CASE DecayStep(row) = "archive" -> Archived(row, DecayedConfidence(row))
      [] DecayStep(row) = "decay" -> [row EXCEPT !.confidence = DecayedConfidence(row)]
      [] OTHER -> row

\* The decay_log rows run() writes for the clauses 1..n, in row order.
RECURSIVE DecayRunLog(_, _)
DecayRunLog(cl, n) ==
    IF n = 0 THEN << >>
    ELSE LET row == cl[n]
             rest == DecayRunLog(cl, n - 1)
         IN  CASE DecayStep(row) = "archive" ->
                    Append(rest, ArchiveLogRow(n, DecayedConfidence(row)))
               [] DecayStep(row) = "decay" ->
                    Append(rest, DecayLogRow(n, row.confidence,
                                             DecayedConfidence(row), "scheduled_decay"))
               [] OTHER -> rest

DecayReport(cl) ==
    [processed |-> Cardinality({i \in RowIds(cl) : DecaySelected(cl[i])}),
     decayed |-> Cardinality({i \in RowIds(cl) : DecayStep(cl[i]) = "decay"}),
     archived |-> Cardinality({i \in RowIds(cl) : DecayStep(cl[i]) = "archive"})]

\* run(): a disabled runner returns an empty report at once, unless the run
\* is a dry run.
RunSkipped(dryRun) == ~decayConfig.enabled /\ ~dryRun
EmptyReport == [processed |-> 0, decayed |-> 0, archived |-> 0]

\* what run(dryRun) returns (without its timestamp)
RunReport(dryRun) ==
    IF RunSkipped(dryRun) THEN EmptyReport ELSE DecayReport(clauses)

\* last_decay_run written by a dry run too
LastDecayRunAfter_Always(dryRun) == Some(now)

\* system_metadata.last_decay_run at the end of a run that was not skipped
LastDecayRunAfter(dryRun) ==
    IF dryRun THEN sysmeta.last_decay_run ELSE Some(now)

\* what run(dryRun) writes
DecayRunEffect(dryRun) ==
    IF RunSkipped(dryRun)
    THEN UNCHANGED <<clauses, decay_log, sysmeta>>
    ELSE /\ IF dryRun
            THEN UNCHANGED <<clauses, decay_log>>
            ELSE /\ clauses' = [i \in DOMAIN clauses |-> DecayRow(clauses[i])]
                 /\ decay_log' = decay_log \o DecayRunLog(clauses, Len(clauses))
         /\ sysmeta' = [sysmeta EXCEPT
                           !.last_decay_run = LastDecayRunAfter(dryRun)]

DecayRun(dryRun) ==
    /\ Called
    /\ DecayRunEffect(dryRun)
    /\ last' = Call("run", 0, [dryRun |-> dryRun, report |-> RunReport(dryRun)],
                    "report", 0, 0)
    /\ UNCHANGED <<conflicts, access_log, conflictConfig, dedupConfig, decayConfig, scheduler, inflight, installed_packs, now>>

\* DecayRunner.reinforce: no get(), no access_log row, throws on unknown id.
DecayReinforce(id, amount) ==
    /\ Called
    /\ IF id \notin Ids
       THEN /\ UNCHANGED <<clauses, decay_log>>
            /\ last' = Call("decay.reinforce", id, amount, "error", 0, 0)
       ELSE LET clause == clauses[id]
                newConfidence == ReinforcedConfidence(clause.confidence, amount)
                written == Reinforced(clause, newConfidence)
            IN  IF ClauseRowOk(written)
                THEN /\ clauses' = [clauses EXCEPT ![id] = written]
                     /\ decay_log' = Append(decay_log,
                            DecayLogRow(id, clause.confidence, newConfidence,
                                        "reinforcement"))
                     /\ last' = Call("decay.reinforce", id, amount, "reinforced", 0, 0)
                ELSE /\ UNCHANGED <<clauses, decay_log>>
                     /\ last' = Call("decay.reinforce", id, amount, "error", 0, 0)
    /\ UNCHANGED <<conflicts, access_log, sysmeta, conflictConfig, dedupConfig, decayConfig, scheduler, inflight, installed_packs, now>>

\* Math.max(0, Math.min(1, newConfidence))
Clamp(c) == Max(0, Min(Scale, c))

AdjustConfidence(id, newConfidence, reason) ==
    /\ Called
    /\ IF id \notin Ids
       THEN /\ UNCHANGED <<clauses, decay_log>>
            /\ last' = Call("adjustConfidence", id, newConfidence, "error", 0, 0)
       ELSE LET clause == clauses[id]
                clamped == Clamp(newConfidence)
                written == [clause EXCEPT !.confidence = clamped]
                logged == Append(decay_log,
                                 DecayLogRow(id, clause.confidence, clamped, reason))
            IN  /\ IF clamped < decayConfig.minConfidence
                   THEN /\ clauses' = [clauses EXCEPT ![id] = Archived(written, clamped)]
                        /\ decay_log' = Append(logged, ArchiveLogRow(id, clamped))
                   ELSE /\ clauses' = [clauses EXCEPT ![id] = written]
                        /\ decay_log' = logged
                /\ last' = Call("adjustConfidence", id, newConfidence, "adjusted", 0, 0)
    /\ UNCHANGED <<conflicts, access_log, sysmeta, conflictConfig, dedupConfig, decayConfig, scheduler, inflight, installed_packs, now>>

\* d days pass, up to day max
Advance(d, max) ==
    /\ now + d <= max
    /\ now' = now + d
    /\ last' = NoCall
    /\ UNCHANGED <<clauses, conflicts, decay_log, access_log, sysmeta,
                   conflictConfig, dedupConfig, decayConfig, scheduler, inflight, installed_packs, calls>>

Tick(d) == Advance(d, MaxTime)

(* ------------------- access feedback, knowledge packs ----------------- *)

AccessTypes == {"retrieval", "injection", "reinforcement"}

\* ClauseStore.logClauseAccess: one INSERT, which the foreign key on clause_id
\* and the CHECK on access_type can reject
LogClauseAccess(clauseId, accessType, context) ==
    /\ Called
    /\ IF clauseId \in Ids /\ accessType \in AccessTypes
       THEN /\ access_log' = Append(access_log,
                                    AccessLogRow(clauseId, accessType, context))
            /\ last' = Call("logClauseAccess", clauseId, accessType, "logged",
                            Len(access_log) + 1, 0)
       ELSE /\ UNCHANGED access_log
            /\ last' = Call("logClauseAccess", clauseId, accessType, "error", 0, 0)
    /\ UNCHANGED <<clauses, conflicts, decay_log, sysmeta, conflictConfig,
                   dedupConfig, decayConfig, scheduler, inflight, installed_packs, now>>

\* wasUseful ? 1 : 0
Useful(wasUseful) == IF wasUseful THEN 1 ELSE 0

\* the access_log row after the UPDATE of markAccessUseful
Marked(row, wasUseful, correctionId) ==
    [row EXCEPT !.was_useful = Some(Useful(wasUseful)), !.correction_id = correctionId]

\* ClauseStore.markAccessUseful: UPDATE access_log ... WHERE id = ?, which the
\* foreign key on correction_id can reject; no row for an unknown id
MarkAccessUseful(accessId, wasUseful, correctionId) ==
    /\ Called
    /\ IF accessId \notin RowIds(access_log)
       THEN /\ UNCHANGED access_log
            /\ last' = Call("markAccessUseful", accessId, wasUseful, "none", 0, 0)
       ELSE IF correctionId # NULL /\ correctionId[1] \notin Ids
       THEN /\ UNCHANGED access_log
            /\ last' = Call("markAccessUseful", accessId, wasUseful, "error", 0, 0)
       ELSE /\ access_log' = [access_log EXCEPT
                                ![accessId] = Marked(@, wasUseful, correctionId)]
            /\ last' = Call("markAccessUseful", accessId, wasUseful, "marked", 0, 0)
    /\ UNCHANGED <<clauses, conflicts, decay_log, sysmeta, conflictConfig,
                   dedupConfig, decayConfig, scheduler, inflight, installed_packs, now>>

PackConfidence == 9000
PackDecayRate == 1
DefaultConfidenceFloor == 5000

\* `pack:${packId}`
PackTag(packId) == "pack:" \o packId

DefaultPackLoadOptions ==
    [confidenceFloor |-> DefaultConfidenceFloor, overwriteExisting |-> FALSE]

\* the rows of DELETE FROM clauses WHERE tags LIKE '%"pack:<packId>"%'
PackRows(cl, packId) == {i \in RowIds(cl) : PackTag(packId) \in cl[i].tags}

\* The clause ids that rows outside `doomed` refer to through a foreign key
\* without ON DELETE CASCADE: conflicts.clause_a_id and clause_b_id, and
\* access_log.correction_id.
Referenced(st, doomed) ==
    UNION {{st.conflicts[c].clause_a_id, st.conflicts[c].clause_b_id} :
              c \in DOMAIN st.conflicts}
    \cup {st.access_log[k].correction_id[1] :
             k \in {j \in RowIds(st.access_log) :
                       /\ st.access_log[j].clause_id \notin doomed
                       /\ st.access_log[j].correction_id # NULL}}

\* a DELETE emptying the log
Cascade_Everything(log, doomed) == [k \in DOMAIN log |-> NoRow]

\* ON DELETE CASCADE of access_log and decay_log
Cascade(log, doomed) ==
    [k \in DOMAIN log |->
        IF IsRow(log[k]) /\ log[k].clause_id \in doomed THEN NoRow ELSE log[k]]

\* a remove that leaves the clause rows and marks them invalidated
Erased_Invalidated(cl, doomed) ==
    [i \in DOMAIN cl |-> IF i \in doomed THEN Invalidated(cl[i], "pack_removed")
                         ELSE cl[i]]

\* the clauses table after the DELETE
Erased(cl, doomed) == [i \in DOMAIN cl |-> IF i \in doomed THEN NoRow ELSE cl[i]]

\* PackLoader.remove(packId): the DELETE fails as a whole, and remove throws,
\* when a row it would delete is still referenced.
RemoveOutcome(st, packs, packId) ==
    LET doomed == PackRows(st.clauses, packId)
    IN  IF doomed \cap Referenced(st, doomed) # {}
        THEN [ok |-> FALSE, st |-> st, packs |-> packs, deleted |-> {}]
        ELSE [ok |-> TRUE,
              st |-> [st EXCEPT !.clauses = Erased(@, doomed),
                                !.access_log = Cascade(@, doomed),
                                !.decay_log = Cascade(@, doomed)],
              packs |-> {q \in packs : q.pack_id # packId},
              deleted |-> doomed]

\* the ClauseInput install builds for a claim of the pack
PackClaimInput(packId, claim) ==
    [type |-> claim.type, subject |-> claim.subject, predicate |-> claim.predicate,
     object |-> claim.object, natural_form |-> claim.natural_form,
     confidence |-> Some(IF claim.confidence = NULL THEN PackConfidence
                         ELSE claim.confidence[1]),
     decay_rate |-> Some(PackDecayRate),
     tags |-> claim.tags \cup {PackTag(packId)},
     metadata |-> [pack_id |-> packId],
     source_id |-> PackTag(packId),
     extraction_method |-> "knowledge_pack"]

NoReport == [loaded |-> 0, skipped |-> 0, conflicts |-> 0]

\* the report after a processNewClause that ended with `action`
Counted(report, action) ==
    IF action \in {"insert", "superseded"} THEN [report EXCEPT !.loaded = @ + 1]
    ELSE IF action = "conflict" THEN [report EXCEPT !.conflicts = @ + 1]
    ELSE [report EXCEPT !.skipped = @ + 1]

\* install's loop over the claims of the pack, from tables st on
RECURSIVE InstallClaims(_, _, _, _, _)
InstallClaims(claims, st, report, packId, options) ==
    IF claims = << >> THEN {[st |-> st, report |-> report]}
    ELSE LET input == PackClaimInput(packId, Head(claims))
         IN  IF input.confidence[1] < options.confidenceFloor
             THEN InstallClaims(Tail(claims), st, Counted(report, "skipped"),
                                packId, options)
             ELSE UNION {InstallClaims(Tail(claims), r.st, Counted(report, r.action),
                                       packId, options) :
                            r \in ProcessOutcomes(st, input)}

Installed(packs, packId) == \E q \in packs : q.pack_id = packId

\* INSERT OR REPLACE INTO installed_packs
Recorded(packs, packId) ==
    {q \in packs : q.pack_id # packId} \cup {[pack_id |-> packId, installed_at |-> now]}

\* PackLoader.install(packId, options) for a pack whose files hold `claims`
InstallOutcomes(st, packs, packId, claims, options) ==
    LET existing == Installed(packs, packId)
        failed == [ok |-> FALSE, st |-> st, packs |-> packs, report |-> NoReport,
                   deleted |-> {}]
        removed == IF existing THEN RemoveOutcome(st, packs, packId)
                   ELSE [ok |-> TRUE, st |-> st, packs |-> packs, deleted |-> {}]
    IN  IF existing /\ ~options.overwriteExisting THEN {failed}
        ELSE IF ~removed.ok THEN {failed}
        ELSE {[ok |-> TRUE, st |-> r.st, packs |-> Recorded(removed.packs, packId),
               report |-> r.report, deleted |-> removed.deleted] :
                 r \in InstallClaims(claims, removed.st, NoReport, packId, options)}

\* the tables become those of st
Becomes(st) ==
    /\ clauses' = st.clauses
    /\ conflicts' = st.conflicts
    /\ decay_log' = st.decay_log
    /\ access_log' = st.access_log
    /\ sysmeta' = st.sysmeta

Stored == Tables(clauses, conflicts, decay_log, access_log, sysmeta)

\* install(packId, options) where the packs directory holds `files`: the
\* claims of each pack
PackInstall(packId, files, options) ==
    /\ Called
    /\ \E r \in InstallOutcomes(Stored, installed_packs, packId, files[packId], options) :
          /\ Becomes(r.st)
          /\ installed_packs' = r.packs
          /\ last' = Call("packs.install", r.deleted,
                          [packId |-> packId, options |-> options, report |-> r.report],
                          IF r.ok THEN "installed" ELSE "error", 0, 0)
    /\ UNCHANGED <<conflictConfig, dedupConfig, decayConfig, scheduler, inflight, now>>

\* listInstalled, filtered by update: ORDER BY installed_at DESC, packs
\* installed at the same time in any order
UpdateOrders(packs, packId) ==
    LET toUpdate == {q \in packs : packId = NULL \/ q.pack_id = packId[1]}
        n == Cardinality(toUpdate)
    IN  {[k \in 1..n |-> o[k].pack_id] :
            o \in {u \in [1..n -> toUpdate] :
                      /\ \A a, b \in 1..n : a # b => u[a] # u[b]
                      /\ \A a, b \in 1..n :
                            a < b => u[a].installed_at >= u[b].installed_at}}

\* update's loop: install with overwriteExisting for each pack of `order`; a
\* failure is caught and the loop goes on
RECURSIVE UpdateFrom(_, _, _, _, _, _)
UpdateFrom(order, st, packs, files, deleted, reports) ==
    IF order = << >>
    THEN {[st |-> st, packs |-> packs, deleted |-> deleted, reports |-> reports]}
    ELSE UNION {UpdateFrom(Tail(order), r.st, r.packs, files, deleted \cup r.deleted,
                           IF r.ok THEN Append(reports, r.report) ELSE reports) :
                   r \in InstallOutcomes(st, packs, Head(order), files[Head(order)],
                                         [DefaultPackLoadOptions EXCEPT
                                            !.overwriteExisting = TRUE])}

\* PackLoader.update(packId?)
PackUpdate(packId, files) ==
    /\ Called
    /\ \E order \in UpdateOrders(installed_packs, packId) :
       \E r \in UpdateFrom(order, Stored, installed_packs, files, {}, << >>) :
          /\ Becomes(r.st)
          /\ installed_packs' = r.packs
          /\ last' = Call("packs.update", r.deleted,
                          [packId |-> packId, reports |-> r.reports],
                          "updated", Len(order), 0)
    /\ UNCHANGED <<conflictConfig, dedupConfig, decayConfig, scheduler, inflight, now>>

PackRemove(packId) ==
    /\ Called
    /\ LET r == RemoveOutcome(Stored, installed_packs, packId)
       IN  /\ Becomes(r.st)
           /\ installed_packs' = r.packs
           /\ last' = Call("packs.remove", r.deleted, [packId |-> packId],
                           IF r.ok THEN "removed" ELSE "error", 0, 0)
    /\ UNCHANGED <<conflictConfig, dedupConfig, decayConfig, scheduler, inflight, now>>

(* ------------------------------ inputs -------------------------------- *)

Candidate(type, predicate, object, words, confidence) ==
    [type |-> type, subject |-> "user", predicate |-> predicate,
     object |-> object, natural_form |-> words, confidence |-> confidence,
     decay_rate |-> NULL, tags |-> {}, metadata |-> << >>]

\* Candidates for the ingestion paths: a singleton predicate (lives_in), a
\* multi-value predicate (likes) and one that is neither (prefers); objects
\* that differ, and that differ only in case; a candidate below the 0.3 of
\* processNewClause's SELECT and one the CHECK constraint rejects.
Candidates ==
    {Candidate("fact", "lives_in", "Seattle", <<"User", "lives", "in", "Seattle">>, Some(9000)),
     Candidate("fact", "lives_in", "Denver", <<"User", "lives", "in", "Denver">>, Some(2000)),
     Candidate("preference", "likes", "Tea", <<"User", "likes", "Tea">>, NULL),
     Candidate("preference", "likes", "tea", <<"User", "likes", "tea">>, Some(9000)),
     Candidate("preference", "likes", "coffee", <<"User", "likes", "coffee">>, NULL),
     Candidate("preference", "likes", "milk", <<"User", "likes", "milk">>, Some(15000)),
     Candidate("preference", "prefers", "Tea", <<"User", "prefers", "Tea">>, NULL),
     Candidate("preference", "prefers", "window", <<"User", "prefers", "window", "seats">>, NULL)}

\* The candidates of the specification with every operation
SpecCandidates ==
    {c \in Candidates : c.predicate # "likes" \/ c.object = "milk"}

\* ids a caller passes: those of the stored clauses
\* the candidates given to create directly
CreateCandidates == {c \in SpecCandidates : c.predicate # "prefers"}

IdInputs == Ids
ConflictInputs == DOMAIN conflicts
Reasons == {"moved"}
Amounts == {DefaultReinforceAmount, 0 - 1000}
Adjustments == {500, 15000}
Strategies == {NULL, Some("manual"), Some("highest_confidence")}
TickDays == {30}

UpdateInputs ==
    {[confidence |-> 2000],
     [confidence |-> 0 - 500],
     [valid_to |-> NULL, reinforcement_count |-> 0]}

Next ==
    \/ \E input \in CreateCandidates : Create(input)
    \/ \E input \in SpecCandidates : ProcessNewClause(input)
    \/ \E input \in SpecCandidates : ProcessWithDeduplication(input)
    \/ \E id \in IdInputs : Get(id)
    \/ \E id \in IdInputs, u \in UpdateInputs : Update(id, u)
    \/ \E id \in IdInputs, r \in Reasons : Invalidate(id, r)
    \/ \E id \in IdInputs, a \in Amounts : Reinforce(id, a)
    \/ \E c \in ConflictInputs, st \in Strategies : ResolveConflict(c, st)
    \/ \E dryRun \in BOOLEAN : DecayRun(dryRun)
    \/ \E id \in IdInputs, a \in Amounts : DecayReinforce(id, a)
    \/ \E id \in IdInputs, c \in Adjustments : AdjustConfidence(id, c, "manual_adjustment")
    \/ \E d \in TickDays : Tick(d)

Spec == Init /\ [][Next]_vars

\* Ingestion interleaved with decay runs, adjustConfidence and update
NextIngest ==
    \/ \E input \in Candidates : ProcessNewClause(input)
    \/ \E input \in Candidates : ProcessWithDeduplication(input)
    \/ \E id \in IdInputs : Update(id, [confidence |-> 2000])
    \/ \E id \in IdInputs, c \in Adjustments : AdjustConfidence(id, c, "manual_adjustment")
    \/ DecayRun(FALSE)
    \/ \E d \in TickDays : Tick(d)

SpecIngest == Init /\ [][NextIngest]_vars

(* ------------------------- conflicts resolved ------------------------- *)

\* Candidates on a predicate that is in neither list: two of the default
\* confidence and one above it.
ResolveCandidates ==
    {Candidate("preference", "prefers", "Tea", <<"User", "prefers", "Tea">>, NULL),
     Candidate("preference", "prefers", "window",
               <<"User", "prefers", "window", "seats">>, NULL),
     Candidate("preference", "prefers", "aisle",
               <<"User", "prefers", "aisle", "seats">>, Some(9000))}

AllStrategies ==
    {NULL, Some("manual"), Some("highest_confidence"), Some("newest_wins"),
     Some("merge_history")}

ConflictConfigInputs == {[preserveHistory |-> FALSE], [strategy |-> "manual"]}

\* ids of the stored conflicts and one that no conflict has
ResolveInputs == DOMAIN conflicts \cup {Len(conflicts) + 1}

NextResolve ==
    \/ \E input \in ResolveCandidates : ProcessNewClause(input)
    \/ \E c \in ResolveInputs, st \in AllStrategies : ResolveConflict(c, st)
    \/ \E st \in AllStrategies, faults \in SUBSET ConflictInputs :
          \E point \in IF faults = {} THEN {"select"} ELSE FaultPoints :
             ResolveAllConflicts(st, faults, point)
    \/ \E config \in ConflictConfigInputs : setConflictConfig(config)
    \/ \E d \in TickDays : Tick(d)

SpecResolve == Init /\ [][NextResolve]_vars

(* ---------------------------- deduplication -------------------------- *)

\* Candidates about tea: the same triple worded twice, with metadata, the object in another
\* case, the same sentence extracted under another predicate, a sentence
\* sharing two of its three words, and a clause at the 0.3 of the fuzzy SELECT.
DedupCandidates ==
    {[Candidate("preference", "likes", "Tea", <<"User", "likes", "Tea">>, NULL)
         EXCEPT !.metadata = [channel |-> "chat"]],
     [Candidate("preference", "likes", "Tea", <<"The", "user", "likes", "tea">>, NULL)
         EXCEPT !.metadata = [origin |-> "mail"]],
     Candidate("preference", "likes", "tea", <<"User", "likes", "tea">>, Some(3000)),
     Candidate("preference", "drinks", "Tea", <<"User", "likes", "Tea">>, NULL),
     Candidate("preference", "likes", "coffee", <<"User", "likes", "coffee">>, NULL)}

DedupConfigInputs ==
    {[useContentHash |-> FALSE], [onDuplicate |-> "skip"], [onDuplicate |-> "merge"],
     [enabled |-> FALSE]}

NextDedup ==
    \/ \E input \in DedupCandidates : ProcessWithDeduplication(input)
    \/ \E input \in DedupCandidates : FindDuplicate(input)
    \/ \E config \in DedupConfigInputs : setDeduplicationConfig(config)

SpecDedup == Init /\ [][NextDedup]_vars

(* ------------------------------ retrieval ---------------------------- *)

\* Retrievals are explored while access_log holds fewer than MaxAccessLog rows.
MaxAccessLog == 1

RetrieveCandidates ==
    {Candidate("fact", "lives_in", "Seattle", <<"User", "lives", "in", "Seattle">>, Some(9000)),
     Candidate("fact", "lives_in", "Denver", <<"User", "lives", "in", "Denver">>, Some(2000)),
     Candidate("preference", "likes", "Tea", <<"User", "likes", "Tea">>, NULL)}

Queries == {<< >>, <<"user", "lives", "in">>}

RetrieveOptions ==
    {DefaultRetrievalOptions,
     [DefaultRetrievalOptions EXCEPT !.limit = 1, !.boostRecent = TRUE],
     [DefaultRetrievalOptions EXCEPT !.types = Some({"fact"}), !.includeExpired = TRUE,
                                     !.minConfidence = 9000]}

Similarities == {9000}

\* What isSemanticSearchAvailable and findSimilar can answer about the stored
\* clauses: no provider, an exception, or (clauseId, similarity) pairs by
\* similarity, descending: none, one, or those of two clauses stored in a row.
SemanticOutcomes ==
    {[kind |-> "unavailable", results |-> << >>],
     [kind |-> "throws", results |-> << >>],
     [kind |-> "results", results |-> << >>]}
    \cup {[kind |-> "results", results |-> <<[clauseId |-> i, similarity |-> x]>>] :
             i \in Ids, x \in Similarities}
    \cup {[kind |-> "results",
           results |-> <<[clauseId |-> i + 1, similarity |-> 9000],
                         [clauseId |-> i, similarity |-> 4000]>>] :
             i \in {j \in Ids : j + 1 \in Ids}}

\* without a query findSimilar is not called: the collaborator is there or not
SemanticOutcomesFor(query) ==
    IF query = << >> THEN {o \in SemanticOutcomes : o.results = << >> /\ o.kind # "throws"}
    ELSE SemanticOutcomes

\* each candidate is stored once
NotStored(input) == \A i \in Ids : clauses[i].object # input.object

NextRetrieve ==
    \/ \E input \in RetrieveCandidates : NotStored(input) /\ Create(input)
    \/ \E id \in IdInputs, r \in Reasons : Invalidate(id, r)
    \/ /\ Len(access_log) < MaxAccessLog
       /\ \E query \in Queries, options \in RetrieveOptions,
             semantic \in SemanticOutcomes :
                semantic \in SemanticOutcomesFor(query) /\ Retrieve(query, options, semantic)
    \/ \E d \in TickDays : Tick(d)

SpecRetrieve == Init /\ [][NextRetrieve]_vars

(* ------------------------------- update ------------------------------- *)

UpdateCandidates ==
    {Candidate("fact", "lives_in", "Seattle", <<"User", "lives", "in", "Seattle">>, Some(9000)),
     Candidate("preference", "likes", "Tea", <<"User", "likes", "Tea">>, NULL)}

\* Partial<Clause> objects: allowed keys alone, a confidence the CHECK
\* constraint rejects, allowed keys next to keys update does not accept, and
\* no allowed key at all.
UpdateFields ==
    {[confidence |-> 2000],
     [confidence |-> 15000],
     [decay_rate |-> 1, tags |-> {"home"},
      metadata |-> [EmptyMetadata EXCEPT !.user = [note |-> "edited"]]],
     [natural_form |-> <<"User", "moved">>, type |-> "habit", subject |-> "them",
      predicate |-> "was_in", object |-> "Oslo", valid_from |-> 7, valid_to |-> Some(7),
      recorded_at |-> 7, reinforcement_count |-> 7, source_id |-> "other"],
     [valid_to |-> Some(7), reinforcement_count |-> 7]}

\* ids of stored clauses and one that is not stored
UpdateIds == Ids \cup {NextId}

NextUpdate ==
    \/ \E input \in UpdateCandidates : Create(input)
    \/ \E id \in UpdateIds, r \in Reasons : Invalidate(id, r)
    \/ \E id \in UpdateIds, u \in UpdateFields : Update(id, u)
    \/ \E d \in TickDays : Tick(d)

SpecUpdate == Init /\ [][NextUpdate]_vars

(* ----------------------- reinforce calls in flight -------------------- *)

ReinforceCandidates ==
    {Candidate("fact", "lives_in", "Denver", <<"User", "lives", "in", "Denver">>, Some(2000)),
     Candidate("fact", "works_at", "Acme", <<"User", "works", "at", "Acme">>, Some(9500))}

ReinforceAmounts == {DefaultReinforceAmount, 1000}

\* A client that starts reinforce calls without awaiting the previous one.
NextReinforce ==
    \/ \E input \in ReinforceCandidates : Create(input)
    \/ \E id \in IdInputs, a \in ReinforceAmounts : ReinforceBegin(id, a)
    \/ ReinforceEnd

SpecReinforce == Init /\ [][NextReinforce]_vars

(* --------------------------- knowledge packs -------------------------- *)

PackIds == {"city", "drinks"}

PackClaim(type, predicate, object, words, confidence) ==
    [type |-> type, subject |-> "user", predicate |-> predicate, object |-> object,
     natural_form |-> words, confidence |-> confidence, tags |-> {}]

\* What the packs directory holds: a claim with the default confidence, and a
\* pack with a claim that contradicts the caller's clause and one below the
\* confidence floor.
PackFiles ==
    [q \in PackIds |->
        IF q = "city"
        THEN <<PackClaim("fact", "lives_in", "Seattle",
                         <<"User", "lives", "in", "Seattle">>, NULL)>>
        ELSE <<PackClaim("preference", "prefers", "coffee",
                         <<"User", "prefers", "coffee">>, Some(8000)),
               PackClaim("preference", "likes", "Tea",
                         <<"User", "likes", "Tea">>, Some(4000))>>]

PackOptions ==
    {DefaultPackLoadOptions, [DefaultPackLoadOptions EXCEPT !.overwriteExisting = TRUE]}

\* the caller's own clauses, one of them carrying the tag of a pack
PackCandidates ==
    {Candidate("preference", "prefers", "Tea", <<"User", "prefers", "Tea">>, NULL),
     [Candidate("fact", "lives_in", "Denver", <<"User", "lives", "in", "Denver">>,
                Some(9000)) EXCEPT !.tags = {PackTag("city")}]}

\* ids of access_log rows and one that no row has
AccessIds == DOMAIN access_log \cup {Len(access_log) + 1}

NextPacks ==
    \/ \E input \in PackCandidates : NotStored(input) /\ Create(input)
    \/ \E packId \in PackIds, options \in PackOptions :
          PackInstall(packId, PackFiles, options)
    \/ \E packId \in {NULL} \cup {Some(q) : q \in PackIds} : PackUpdate(packId, PackFiles)
    \/ \E packId \in PackIds : PackRemove(packId)
    \/ \E id \in Ids : Reinforce(id, DefaultReinforceAmount)
    \/ \E id \in Ids : AdjustConfidence(id, 500, "manual")
    \/ \E id \in Ids \cup {NextId} : LogClauseAccess(id, "injection", <<"prompt">>)
    \/ \E accessId \in AccessIds,
          correctionId \in {NULL} \cup {Some(i) : i \in Ids \cup {NextId}} :
          MarkAccessUseful(accessId, correctionId = NULL, correctionId)
    \/ Retrieve(<< >>, DefaultRetrievalOptions, [kind |-> "unavailable", results |-> << >>])
    \/ DecayRun(FALSE)
    \/ \E d \in TickDays : Tick(d)

SpecPacks == Init /\ [][NextPacks]_vars

(* ------------------------ the decay runner alone --------------------- *)

MaxDecayTime == 90

\* The configs a caller can construct a DecayRunner with: enabled or not.
DecayConfigs == {[DEFAULT_DECAY_CONFIG EXCEPT !.enabled = e] : e \in BOOLEAN}

InitDecay == InitStore /\ decayConfig \in DecayConfigs

DecayCandidate(object, confidence, decay_rate) ==
    [Candidate("preference", "likes", object, <<"User", "likes", object>>,
               Some(confidence))
        EXCEPT !.decay_rate = decay_rate]

\* Clauses to decay: confidence 0.15 at rate 0.05; confidence 0.2 at rate 0.5
\* (exactly at the floor after 30 days, at 0 after 60); confidence 0.8 at the
\* default rate of its type; confidence 0.2 at rate 0.2 (at 0.12 after one run
\* on day 60) and at rate 0.
DecayCandidates ==
    {DecayCandidate("pizza", 1500, Some(500)),
     DecayCandidate("jazz", 2000, Some(5000)),
     DecayCandidate("Tea", 8000, NULL),
     DecayCandidate("rain", 2000, Some(2000)),
     DecayCandidate("snow", 2000, Some(0))}

DecayTick(d) == Advance(d, MaxDecayTime)

NextDecay ==
    \/ \E input \in DecayCandidates : Create(input)
    \/ \E dryRun \in BOOLEAN : DecayRun(dryRun)
    \/ \E id \in IdInputs : Reinforce(id, DefaultReinforceAmount)
    \/ \E d \in TickDays : DecayTick(d)

SpecDecay == InitDecay /\ [][NextDecay]_vars

(* ------------------------------- claims ------------------------------- *)

\* The step is a call of op (every call counts once in `calls`).
IsCall(op) == calls' = calls + 1 /\ last'.op = op

ActiveFor(cl, subject, predicate) ==
    {i \in DOMAIN cl : /\ cl[i].subject = subject
                       /\ cl[i].predicate = predicate
                       /\ cl[i].valid_to = NULL}

\* C1: in every reachable state every stored clause has 0 <= confidence <= 1.
ConfidenceInRange ==
    \A id \in Ids : clauses[id].confidence >= 0 /\ clauses[id].confidence <= Scale

\* C1 witness: adjustConfidence was passed a value above 1 and the clause
\* holds the clamped value.
ConfidenceInRange_Witness ==
    /\ last.op = "adjustConfidence"
    /\ last.action = "adjusted"
    /\ last.arg > Scale
    /\ clauses[last.id].confidence = Scale

\* C2: for each subject and each singleton predicate at most one clause with
\* that (subject, predicate) has valid_to = null.
SingletonInvariant ==
    \A i \in ActiveIds :
        clauses[i].predicate \in SINGLETON_PREDICATES
            => ActiveFor(clauses, clauses[i].subject, clauses[i].predicate) = {i}

\* The active clauses on the candidate's (subject, predicate) whose object is
\* not the candidate's, compared as strings / compared case-insensitively.
Differing(cl, input) ==
    {i \in ActiveFor(cl, input.subject, input.predicate) :
        cl[i].object # input.object}
DifferingFolded(cl, input) ==
    {i \in ActiveFor(cl, input.subject, input.predicate) :
        toLowerCase(cl[i].object) # toLowerCase(input.object)}
SameFolded(cl, input) ==
    {i \in ActiveFor(cl, input.subject, input.predicate) :
        toLowerCase(cl[i].object) = toLowerCase(input.object)}
ExactActive(cl, input) ==
    {i \in ActiveFor(cl, input.subject, input.predicate) :
        cl[i].object = input.object}
IsIngest == IsCall("processNewClause") \/ IsCall("processWithDeduplication")
Neither(predicate) ==
    predicate \notin SINGLETON_PREDICATES \cup MULTI_VALUE_PREDICATES

\* C3: when an active clause (s, p, o1) exists with p a singleton predicate and
\* processNewClause receives a candidate (s, p, o2), o2 different from o1, the
\* call returns 'superseded', the old clause is invalidated with reason
\* 'superseded', the new clause is the only active clause for (s, p), and
\* search('') returns the new clause and not the old one.
C3_Supersession ==
    [][(/\ IsCall("processNewClause")
        /\ last'.arg.predicate \in SINGLETON_PREDICATES
        /\ CreateOk(last'.arg)
        /\ Differing(clauses, last'.arg) # {}
        /\ SameFolded(clauses, last'.arg) = {})
       => LET input == last'.arg
              old == Differing(clauses, input)
              found == SearchEmpty(clauses', {}, 0, FALSE, DefaultSearchLimit, 0)
          IN  /\ last'.action = "superseded"
              /\ \A i \in old :
                    /\ clauses'[i].valid_to # NULL
                    /\ clauses'[i].metadata.invalidation_reason = Some("superseded")
                    /\ i \notin found
              /\ ActiveFor(clauses', input.subject, input.predicate) = {last'.newId}
              /\ last'.newId \in found]_vars

\* C4: a candidate whose (subject, predicate, object) is that of an active
\* clause is answered 'reinforced' and no row is inserted, through
\* processNewClause and through processWithDeduplication.
C4_ExactDuplicate ==
    [][(/\ IsIngest
        /\ ExactActive(clauses, last'.arg) # {}
        /\ Differing(clauses, last'.arg) = {})
       => /\ last'.action = "reinforced"
          /\ Len(clauses') = Len(clauses)
          /\ ExactActive(clauses', last'.arg) = ExactActive(clauses, last'.arg)]_vars

\* C5: when an active clause (s, p, o1) exists with p in neither list and a
\* candidate (s, p, o2) with a different object is processed, the candidate is
\* inserted, both stay active and exactly one pending Conflict naming the two
\* clauses is created; a Conflict is created in no other situation.
C5_Contradiction ==
    [][/\ (/\ IsCall("processNewClause")
           /\ Neither(last'.arg.predicate)
           /\ CreateOk(last'.arg)
           /\ Differing(clauses, last'.arg) # {}
           /\ SameFolded(clauses, last'.arg) = {})
          => /\ last'.action = "conflict"
             /\ Len(clauses') = Len(clauses) + 1
             /\ clauses'[last'.newId].valid_to = NULL
             /\ \A i \in Differing(clauses, last'.arg) : clauses'[i].valid_to = NULL
             /\ Len(conflicts') = Len(conflicts) + 1
             /\ LET c == conflicts'[Len(conflicts')]
                IN  /\ c.status = "pending"
                    /\ c.clause_a_id \in Differing(clauses, last'.arg)
                    /\ c.clause_b_id = last'.newId
       /\ Len(conflicts') > Len(conflicts)
          => /\ IsIngest
             /\ Neither(last'.arg.predicate)
             /\ Differing(clauses, last'.arg) # {}]_vars

C7_Reinforce ==
    [][((IsCall("reinforce") \/ IsCall("decay.reinforce")) /\ last'.id \in Ids)
       => LET id == last'.id IN
          /\ clauses'[id].confidence >= clauses[id].confidence
          /\ clauses'[id].confidence <= Scale
          /\ clauses'[id].reinforcement_count
                = clauses[id].reinforcement_count + 1]_vars

\* C8: once a clause's valid_to is non-null it is never null again.
C8_NeverReactivated ==
    [][\A id \in Ids :
          (clauses[id].valid_to # NULL /\ id \in DOMAIN clauses')
             => clauses'[id].valid_to # NULL]_vars

\* C8 witness: update was called on an invalidated clause with valid_to: null
\* among its fields, and the clause is still invalid.
C8_Witness ==
    /\ last.op = "update"
    /\ "valid_to" \in DOMAIN last.arg
    /\ last.arg.valid_to = NULL
    /\ clauses[last.id].valid_to # NULL

\* C9: invalidate on a clause that an earlier invalidation made invalid leaves
\* its row unchanged: valid_to and the recorded invalidation reason keep the
\* values of the first invalidation.
C9_InvalidateIdempotent ==
    [][(/\ IsCall("invalidate")
        /\ last'.id \in Ids
        /\ clauses[last'.id].valid_to # NULL
        /\ clauses[last'.id].metadata.invalidation_reason # NULL)
       => clauses'[last'.id] = clauses[last'.id]]_vars

\* C10: no reinforce, update, adjustConfidence, decay run or resolveConflict
\* changes the confidence, reinforcement_count, metadata or valid_to of a
\* clause that is invalidated.
C10_Inert ==
    [][(\E op \in {"reinforce", "decay.reinforce", "update", "adjustConfidence",
                   "run", "resolveConflict"} : IsCall(op))
       => \A id \in Ids :
            clauses[id].valid_to # NULL
              => /\ clauses'[id].confidence = clauses[id].confidence
                 /\ clauses'[id].reinforcement_count = clauses[id].reinforcement_count
                 /\ clauses'[id].metadata = clauses[id].metadata
                 /\ clauses'[id].valid_to = clauses[id].valid_to]_vars

\* What a real run of an enabled runner does to the clauses of the current
\* state, as counts: clauses it selects, clauses whose confidence it lowers
\* and leaves active, clauses it invalidates.
RealRunCounts ==
    [processed |-> Cardinality({i \in ActiveIds :
                        clauses[i].confidence > decayConfig.minConfidence}),
     decayed |-> Cardinality({i \in ActiveIds :
                        /\ DecayRow(clauses[i]).valid_to = NULL
                        /\ DecayRow(clauses[i]).confidence # clauses[i].confidence}),
     archived |-> Cardinality({i \in ActiveIds :
                        DecayRow(clauses[i]).valid_to # NULL})]
IsDryRun == IsCall("run") /\ last'.arg.dryRun
IsRealRun == IsCall("run") /\ ~last'.arg.dryRun

\* C11 as stated: run(dryRun = true) leaves clauses, decay_log, access_log
\* and last_decay_run as they were, and its report carries the counts a real
\* run on the same state returns.
C11_DryRunAsStated ==
    [][IsDryRun
       => /\ clauses' = clauses
          /\ decay_log' = decay_log
          /\ access_log' = access_log
          /\ sysmeta' = sysmeta
          /\ last'.arg.report = RunReport(FALSE)]_vars

\* C11, amended: run(dryRun = true) is a pure read in every configuration, and
\* when the runner is enabled its report carries the counts of what a real
\* run on the same state does and returns.
C11_DryRunPure ==
    [][IsDryRun
       => /\ clauses' = clauses
          /\ decay_log' = decay_log
          /\ access_log' = access_log
          /\ sysmeta' = sysmeta
          /\ decayConfig.enabled
               => /\ last'.arg.report = RunReport(FALSE)
                  /\ last'.arg.report = RealRunCounts]_vars

\* C11 witness: a dry run of an enabled runner, after time has passed, that
\* reports clauses to decay or to archive.
C11_Witness ==
    /\ last.op = "run"
    /\ last.arg.dryRun
    /\ decayConfig.enabled
    /\ now > 0
    /\ last.arg.report.decayed + last.arg.report.archived > 0
    /\ decay_log = << >>

\* C12: a decay run never increases a clause's confidence: for every clause,
\* its confidence after the run is at most its confidence before the run.
C12_DecayMonotone ==
    [][IsCall("run")
       => \A id \in Ids : clauses'[id].confidence <= clauses[id].confidence]_vars

\* C12 witness: repeated real runs, with no access in between, have lowered
\* one clause's confidence twice.
C12_Witness ==
    /\ last.op = "run"
    /\ \E id \in Ids :
          /\ clauses[id].access_count = 0
          /\ clauses[id].reinforcement_count = 0
          /\ Cardinality({k \in DOMAIN decay_log :
                             /\ decay_log[k].clause_id = id
                             /\ decay_log[k].reason \in
                                  {"scheduled_decay", "archived_decay"}}) >= 2

\* The decay of C13 for one row: the amount
\* c * (decay_rate / (1 + ln(reinforcement_count + 1))) * (days / 30) as the
\* fraction ClaimedNum / ClaimedDen of a confidence unit, and the new
\* confidence max(0, c - amount).
ClaimedNum(row) == row.confidence * row.decay_rate * (now - row.last_accessed)
ClaimedDen(row) == 30 * (Scale + LnPlusOne(row.reinforcement_count))
ClaimedNew(row) == Max(0, row.confidence - (ClaimedNum(row) \div ClaimedDen(row)))
ClaimedArchive(row) ==
    FractionAbove(ClaimedNum(row), ClaimedDen(row),
                  row.confidence - decayConfig.minConfidence)
ClaimedDecay(row) ==
    ~ClaimedArchive(row) /\ FractionAbove(ClaimedNum(row), ClaimedDen(row), 10)
ClaimedSelected ==
    {i \in ActiveIds : clauses[i].confidence > decayConfig.minConfidence}

\* The decay_log rows the step appends for clause id
LoggedFor(id) ==
    {decay_log'[k].reason :
        k \in {j \in DOMAIN decay_log' : j > Len(decay_log)
                                          /\ decay_log'[j].clause_id = id}}

ClaimedRun ==
    /\ \A i \in ClaimedSelected :
          IF ClaimedArchive(clauses[i])
          THEN /\ clauses'[i].valid_to # NULL
               /\ clauses'[i].confidence = ClaimedNew(clauses[i])
               /\ LoggedFor(i) = {"archived_decay"}
          ELSE IF ClaimedDecay(clauses[i])
          THEN /\ clauses'[i].valid_to = NULL
               /\ clauses'[i].confidence = ClaimedNew(clauses[i])
               /\ LoggedFor(i) = {"scheduled_decay"}
          ELSE /\ clauses'[i] = clauses[i]
               /\ LoggedFor(i) = {}
    /\ last'.arg.report.archived =
          Cardinality({i \in ClaimedSelected : ClaimedArchive(clauses[i])})
    /\ last'.arg.report.decayed =
          Cardinality({i \in ClaimedSelected : ClaimedDecay(clauses[i])})

\* C13 as stated: run(dryRun = false) archives each selected clause whose new
\* confidence is below minConfidence, decays each other one whose confidence
\* falls by more than 0.001, leaves the rest untouched, and reports the counts.
C13_RunAsStated == [][IsRealRun => ClaimedRun]_vars

\* C13, amended: the same, for a runner that is enabled.
C13_Run == [][(IsRealRun /\ decayConfig.enabled) => ClaimedRun]_vars

\* C13 witness: one real run of an enabled runner that archived a clause,
\* decayed another and left a third, selected one untouched.
C13_Witness ==
    /\ last.op = "run"
    /\ ~last.arg.dryRun
    /\ decayConfig.enabled
    /\ last.arg.report.archived >= 1
    /\ last.arg.report.decayed >= 1
    /\ last.arg.report.processed
          > last.arg.report.archived + last.arg.report.decayed

\* The clauses of the scenario of C14: active, confidence 0.15, decay_rate
\* 0.05, never reinforced, last accessed 90 days ago, with minConfidence 0.1.
ScenarioClauses ==
    {i \in ActiveIds :
        /\ clauses[i].confidence = 1500
        /\ clauses[i].decay_rate = 500
        /\ clauses[i].reinforcement_count = 0
        /\ now - clauses[i].last_accessed = 90
        /\ decayConfig.minConfidence = 1000}

\* C14 as stated: run(dryRun = false) of an enabled runner archives the
\* clause of the scenario: its valid_to becomes non-null and the report counts
\* it in archived.
C14_ScenarioAsStated ==
    [][(IsRealRun /\ decayConfig.enabled)
       => \A i \in ScenarioClauses :
             /\ clauses'[i].valid_to # NULL
             /\ last'.arg.report.archived >= 1]_vars

\* C14, amended: an enabled runner decays the clause of the scenario to
\* 0.1275 and does not archive it: valid_to stays null, one scheduled_decay
\* row is logged and the report counts the clause in decayed.
C14_Scenario ==
    [][(IsRealRun /\ decayConfig.enabled)
       => \A i \in ScenarioClauses :
             /\ clauses'[i].valid_to = NULL
             /\ clauses'[i].confidence = 1275
             /\ LoggedFor(i) = {"scheduled_decay"}
             /\ last'.arg.report.decayed >= 1]_vars

\* C14 witness: the run has happened on the scenario's clause.
C14_Witness ==
    /\ last.op = "run"
    /\ ~last.arg.dryRun
    /\ decayConfig.enabled
    /\ \E i \in ActiveIds :
          /\ clauses[i].confidence = 1275
          /\ clauses[i].decay_rate = 500
          /\ now - clauses[i].last_accessed = 90
          /\ \E k \in DOMAIN decay_log :
                /\ decay_log[k].clause_id = i
                /\ decay_log[k].previous_confidence = 1500
                /\ decay_log[k].new_confidence = 1275

\* The strategy resolveConflict(conflictId, strategy) uses.
EffectiveStrategy(strategy) ==
    IF strategy = NULL THEN conflictConfig.strategy ELSE strategy[1]

\* The step is resolveConflict on a pending conflict under one of strategies.
Resolving(strategies) ==
    /\ IsCall("resolveConflict")
    /\ last'.id \in PendingConflicts
    /\ EffectiveStrategy(last'.arg) \in strategies

ClauseA(c) == conflicts[c].clause_a_id
ClauseB(c) == conflicts[c].clause_b_id
OtherClause(c, kept) == IF kept = ClauseA(c) THEN ClauseB(c) ELSE ClauseA(c)

\* C15: resolveConflict under highest_confidence keeps the clause with the
\* larger confidence and invalidates the other; with equal confidences the
\* kept clause is fixed by the conflict: it is clause_a.
C15_HighestConfidence ==
    [][Resolving({"highest_confidence"})
       => LET c == last'.id
              a == ClauseA(c)
              b == ClauseB(c)
              kept == last'.otherId
              other == OtherClause(c, kept)
          IN  /\ kept \in {a, b}
              /\ clauses[a].confidence > clauses[b].confidence => kept = a
              /\ clauses[b].confidence > clauses[a].confidence => kept = b
              /\ clauses[a].confidence = clauses[b].confidence => kept = a
              /\ clauses'[other].valid_to # NULL
              /\ clauses'[kept].valid_to = clauses[kept].valid_to
              /\ conflicts'[c].status = "auto_resolved"]_vars

\* C15 witness: a conflict resolved under highest_confidence in favour of
\* clause_b, the clause of strictly larger confidence.
C15_Witness ==
    /\ last.op = "resolveConflict"
    /\ last.arg = Some("highest_confidence")
    /\ last.id \in DOMAIN conflicts
    /\ last.otherId = conflicts[last.id].clause_b_id
    /\ clauses[last.otherId].confidence
          > clauses[conflicts[last.id].clause_a_id].confidence
    /\ clauses[last.otherId].valid_to = NULL
    /\ clauses[conflicts[last.id].clause_a_id].valid_to # NULL

\* C16: resolveConflict under newest_wins or merge_history keeps the clause
\* with the later recorded_at, invalidates the other one and marks the
\* conflict auto_resolved.
C16_NewestWins ==
    [][Resolving({"newest_wins", "merge_history"})
       => LET c == last'.id
              kept == last'.otherId
              other == OtherClause(c, kept)
          IN  /\ kept \in {ClauseA(c), ClauseB(c)}
              /\ clauses[kept].recorded_at >= clauses[other].recorded_at
              /\ clauses'[other].valid_to # NULL
              /\ clauses'[other].metadata.invalidation_reason # NULL
              /\ clauses'[kept].valid_to = clauses[kept].valid_to
              /\ conflicts'[c].status = "auto_resolved"]_vars

\* C16 witness: a conflict between clauses recorded on different days was
\* resolved under newest_wins; the later one is active, the other is not.
C16_Witness ==
    /\ last.op = "resolveConflict"
    /\ last.arg = Some("newest_wins")
    /\ last.otherId # 0
    /\ LET other == OtherClause(last.id, last.otherId)
       IN  /\ clauses[last.otherId].recorded_at > clauses[other].recorded_at
           /\ clauses[last.otherId].valid_to = NULL
           /\ clauses[other].valid_to # NULL
    /\ conflicts[last.id].status = "auto_resolved"

NonManual == {"newest_wins", "highest_confidence", "merge_history"}

\* C17: a resolution appends the invalidated clause's id to the kept clause's
\* metadata.supersedes exactly when the strategy is merge_history and
\* preserveHistory is enabled; in every other resolution the kept clause's
\* metadata is unchanged.
C17_SupersedesLink ==
    [][Resolving(NonManual)
       => LET c == last'.id
              kept == last'.otherId
              other == OtherClause(c, kept)
              linking == /\ EffectiveStrategy(last'.arg) = "merge_history"
                         /\ conflictConfig.preserveHistory
          IN  /\ linking <=> clauses'[kept].metadata.supersedes
                                = Append(clauses[kept].metadata.supersedes, other)
              /\ ~linking => clauses'[kept].metadata = clauses[kept].metadata]_vars

\* C18: resolveConflict under manual on a pending conflict answers
\* 'requires_manual_resolution' and changes nothing: the conflict row stays
\* as it is, pending, and no field of either clause changes.
C18_ManualNoChange ==
    [][Resolving({"manual"})
       => LET c == last'.id
          IN  /\ last'.action = "requires_manual_resolution"
              /\ last'.otherId = 0
              /\ conflicts' = conflicts
              /\ clauses'[ClauseA(c)] = clauses[ClauseA(c)]
              /\ clauses'[ClauseB(c)] = clauses[ClauseB(c)]]_vars

\* C19: resolveAllConflicts handles each conflict that is pending at the call
\* once: resolved + skipped + errors is the number of those conflicts; a
\* conflict whose resolution throws is counted in errors and the others are
\* still handled (under a non-manual strategy none of them is pending
\* afterwards, under manual each is counted as skipped); with a non-manual
\* strategy and no error no pending conflict remains.  Conflicts that were
\* not pending are left as they are.
C19_ResolveAll ==
    [][IsCall("resolveAllConflicts")
       => LET report == last'.arg.report
              faults == last'.arg.faults
              manual == EffectiveStrategy(last'.arg.strategy) = "manual"
              others == PendingConflicts \ faults
          IN  /\ report.resolved + report.skipped + report.errors
                    = Cardinality(PendingConflicts)
              /\ report.errors <= Cardinality(faults)
              /\ last'.arg.point = "select" => report.errors = Cardinality(faults)
              /\ ~manual => /\ report.resolved = Cardinality(others)
                            /\ report.errors = Cardinality(faults)
                            /\ \A c \in others : conflicts'[c].status = "auto_resolved"
              /\ manual => /\ report.resolved = 0
                           /\ report.skipped >= Cardinality(others)
              /\ (~manual /\ report.errors = 0)
                    => \A c \in DOMAIN conflicts' : conflicts'[c].status # "pending"
              /\ \A c \in faults : report.errors = Cardinality(faults)
                                      => conflicts'[c].status = "pending"
              /\ \A c \in DOMAIN conflicts \ PendingConflicts :
                    conflicts'[c] = conflicts[c]]_vars

\* C19 witness: a resolveAllConflicts call found two pending conflicts; the
\* resolution of one threw, the other one was resolved all the same.
C19_Witness ==
    /\ last.op = "resolveAllConflicts"
    /\ last.arg.report = [resolved |-> 1, skipped |-> 0, errors |-> 1]
    /\ \E c \in last.arg.faults : conflicts[c].status = "pending"
    /\ \E c \in DOMAIN conflicts \ last.arg.faults :
          conflicts[c].status = "auto_resolved"

\* The step completes a reinforce call that started while exactly one other
\* reinforce of the same clause was suspended, both having read the same row
\* values.
SecondOfTwo ==
    /\ inflight # << >>
    /\ inflight' = Tail(inflight)
    /\ last'.op = "reinforce.end"
    /\ Len(Head(inflight).ahead) = 1
    /\ Head(inflight).ahead[1].clause.confidence = Head(inflight).clause.confidence
    /\ Head(inflight).ahead[1].clause.reinforcement_count
          = Head(inflight).clause.reinforcement_count

\* C21: two reinforce calls on one clause that are in flight together leave
\* the clause as two calls in sequence do: confidence min(1, c + a1 + a2) and
\* reinforcement_count raised by 2.
C21_NoLostUpdate ==
    [][SecondOfTwo
       => LET p == Head(inflight)
          IN  /\ clauses'[p.id].confidence
                    = Min(Scale, p.clause.confidence + p.ahead[1].amount + p.amount)
              /\ clauses'[p.id].reinforcement_count
                    = p.clause.reinforcement_count + 2]_vars

\* The active clauses holding the candidate's (subject, predicate, object)
ExactMatches(input) ==
    {i \in ActiveIds : /\ clauses[i].subject = input.subject
                       /\ clauses[i].predicate = input.predicate
                       /\ clauses[i].object = input.object}

SharesSubjectPredicate(i, input) ==
    clauses[i].subject = input.subject /\ clauses[i].predicate = input.predicate

Jaccard(i, input) == calculateSimilarity(clauses[i].natural_form, input.natural_form)

FuzzyFound == IsCall("findDuplicate") /\ last'.action = "fuzzy"

\* C22 as stated: findDuplicate reports a fuzzy match only when no exact match
\* exists, and only for an active clause of the candidate's subject and
\* predicate whose natural_form Jaccard similarity reaches the threshold.
C22_FuzzyAsStated ==
    [][FuzzyFound
       => /\ ExactMatches(last'.arg) = {}
          /\ last'.id \in ActiveIds
          /\ SharesSubjectPredicate(last'.id, last'.arg)
          /\ Jaccard(last'.id, last'.arg) >= dedupConfig.similarityThreshold]_vars

\* C22: a fuzzy match is reported only with deduplication and useFuzzyMatch
\* on, only when no exact match exists if useContentHash is on, and only for
\* an active clause whose Jaccard similarity reaches the threshold and that
\* either shares the candidate's subject and predicate with confidence above
\* 0.3 or is a row of the full-text search for the candidate's first words.
C22_Fuzzy ==
    [][FuzzyFound
       => /\ dedupConfig.enabled /\ dedupConfig.useFuzzyMatch
          /\ dedupConfig.useContentHash => ExactMatches(last'.arg) = {}
          /\ last'.id \in ActiveIds
          /\ Jaccard(last'.id, last'.arg) >= dedupConfig.similarityThreshold
          /\ \/ /\ SharesSubjectPredicate(last'.id, last'.arg)
                /\ clauses[last'.id].confidence > ProcessMinConfidence
             \/ last'.id \in FtsMatches(clauses, last'.arg)]_vars

\* C22 witness: a fuzzy match on a clause stored under another predicate.
C22_Witness ==
    /\ last.op = "findDuplicate"
    /\ last.action = "fuzzy"
    /\ last.id \in ActiveIds
    /\ clauses[last.id].predicate # last.arg.predicate
    /\ Jaccard(last.id, last.arg) >= dedupConfig.similarityThreshold

\* findDuplicate finds a clause for the candidate in the current state.
Matched(input) == \E r \in findDuplicate(clauses, dedupConfig, input) : r.found

MatchedIds(input) ==
    {r.id : r \in {q \in findDuplicate(clauses, dedupConfig, input) : q.found}}

OthersKept(id) ==
    /\ Len(clauses') = Len(clauses)
    /\ \A i \in Ids \ {id} : clauses'[i] = clauses[i]

BoostedBy(id, amount) ==
    /\ clauses'[id].confidence = Min(Scale, clauses[id].confidence + amount)
    /\ clauses'[id].reinforcement_count = clauses[id].reinforcement_count + 1

\* What processWithDeduplication does besides the metadata of a merge
DedupPolicies ==
    LET input == last'.arg
        id == last'.id
    IN  IF Matched(input)
        THEN /\ id \in MatchedIds(input)
             /\ OthersKept(id)
             /\ UNCHANGED <<conflicts, sysmeta>>
             /\ dedupConfig.onDuplicate = "reinforce"
                   => /\ BoostedBy(id, DefaultReinforceAmount)
                      /\ clauses'[id].metadata = clauses[id].metadata
                      /\ last'.action = "reinforced"
             /\ dedupConfig.onDuplicate = "skip"
                   => /\ UNCHANGED <<clauses, decay_log, access_log>>
                      /\ last'.action = "skipped"
             /\ dedupConfig.onDuplicate = "merge"
                   => /\ BoostedBy(id, MergeReinforceAmount)
                      /\ last'.action = "reinforced"
        ELSE /\ last'.action # "skipped"
             /\ (ExistingFor(clauses, input) = {} /\ CreateOk(input))
                   => /\ last'.action = "insert"
                      /\ Len(clauses') = Len(clauses) + 1

MergeStep ==
    /\ IsCall("processWithDeduplication")
    /\ Matched(last'.arg)
    /\ dedupConfig.onDuplicate = "merge"

\* { ...existing, ...candidate }: the candidate's value where both have a key
MetadataUnion(metadata, input) ==
    [k \in DOMAIN metadata \cup DOMAIN input.metadata |->
        IF k \in DOMAIN input.metadata THEN input.metadata[k] ELSE metadata[k]]

\* C23 as stated: on a match no clause row is inserted; reinforce boosts the
\* matched clause by 0.05, skip changes no clause or log row, merge stores the
\* union of the two metadata objects and boosts by 0.03; without a match the
\* candidate goes through processNewClause.
C23_PoliciesAsStated ==
    [][IsCall("processWithDeduplication")
       => /\ DedupPolicies
          /\ MergeStep
                => /\ clauses'[last'.id].metadata.user
                        = MetadataUnion(clauses[last'.id].metadata.user, last'.arg)
                   /\ clauses'[last'.id].metadata.merge_count
                        = clauses[last'.id].metadata.merge_count]_vars

\* C23: the same, where merge stores the union of the two metadata objects
\* with its merge_count key set to one more than the existing clause's.
C23_Policies ==
    [][IsCall("processWithDeduplication")
       => /\ DedupPolicies
          /\ MergeStep
                => /\ clauses'[last'.id].metadata.user
                        = MetadataUnion(clauses[last'.id].metadata.user, last'.arg)
                   /\ clauses'[last'.id].metadata.merge_count
                        = clauses[last'.id].metadata.merge_count + 1]_vars

\* C23 witness: a merge put a candidate's metadata next to a key the stored
\* clause already had.
C23_Witness ==
    /\ last.op = "processWithDeduplication"
    /\ last.action = "reinforced"
    /\ dedupConfig.onDuplicate = "merge"
    /\ last.id \in Ids
    /\ clauses[last.id].metadata.merge_count = 1
    /\ DOMAIN clauses[last.id].metadata.user = {"channel", "origin"}
    /\ clauses[last.id].confidence = DefaultConfidence + MergeReinforceAmount

(* ------------------------------ retrieval ------------------------------ *)

\* a call of retrieve that returned to its caller
Retrieved == IsCall("retrieve") /\ last'.action # "error"

\* the clauses it returned, as [id, score] records in the order returned
Returned == last'.arg.scored

ReturnedIds == {Returned[k].id : k \in DOMAIN Returned}

\* C24: every clause retrieve returns passes the filters of its options
\* (confidence at least minConfidence, type among types, valid_to null unless
\* includeExpired), whichever of the keyword index and the semantic
\* collaborator brought it.
C24_ReturnedPassFilters ==
    [][Retrieved => ReturnedIds \subseteq Filtered(clauses, last'.arg.options)]_vars

\* C25: retrieve returns at most `limit` clauses, in order of score, highest
\* first, and every score lies between 0 and 1.
C25_LimitOrderRange ==
    [][Retrieved
       => /\ Len(Returned) <= last'.arg.options.limit
          /\ \A k \in DOMAIN Returned :
                /\ 0 <= Returned[k].score
                /\ Returned[k].score <= Scale
                /\ k < Len(Returned) => Returned[k].score >= Returned[k + 1].score]_vars

\* C25 witness: two clauses came back, the first with its score cut to 1, the
\* second with a lower one, although it is the one the keyword index listed
\* first.
C25_Witness ==
    /\ last.op = "retrieve"
    /\ Len(last.arg.scored) = 2
    /\ last.arg.scored[1].score = Scale
    /\ last.arg.scored[2].score < Scale
    /\ last.arg.scored[2].score > 0
    /\ last.arg.keyword # << >>
    /\ last.arg.keyword[1] = last.arg.scored[2].id

\* C26: retrieve appends one access_log row of type 'retrieval' for each
\* clause it returns and adds one to that clause's access_count; the other
\* clauses, those cut off by the limit among them, keep their rows and get
\* no access_log row.
C26_AccessLogged ==
    [][Retrieved
       => /\ Len(access_log') = Len(access_log) + Len(Returned)
          /\ SubSeq(access_log', 1, Len(access_log)) = access_log
          /\ \A k \in DOMAIN Returned :
                /\ access_log'[Len(access_log) + k].clause_id = Returned[k].id
                /\ access_log'[Len(access_log) + k].access_type = "retrieval"
          /\ \A k, m \in DOMAIN Returned : k # m => Returned[k].id # Returned[m].id
          /\ DOMAIN clauses' = DOMAIN clauses
          /\ \A i \in Ids :
                IF i \in ReturnedIds
                THEN clauses'[i].access_count = clauses[i].access_count + 1
                ELSE clauses'[i] = clauses[i]
          /\ UNCHANGED <<decay_log, conflicts>>]_vars

\* C26 witness: the limit cut a scored candidate off: one clause was returned
\* and logged, the other was not.
C26_Witness ==
    /\ last.op = "retrieve"
    /\ last.action # "error"
    /\ last.arg.options.limit = 1
    /\ Len(last.arg.scored) = 1
    /\ last.otherId >= 2
    /\ Len(access_log) = 1
    /\ access_log[1].clause_id = last.arg.scored[1].id
    /\ \E i \in Ids : i # last.arg.scored[1].id /\ clauses[i].access_count = 0
    /\ clauses[last.arg.scored[1].id].access_count = 1

\* C27: when the embedding similarity lookup throws, retrieve still returns
\* to its caller, with the keyword result.
C27_SemanticFailureContained ==
    [][(IsCall("retrieve") /\ last'.arg.semantic.kind = "throws")
          => last'.action = "keyword"]_vars

(* -------------------------------- update ------------------------------- *)

\* the columns update may set
Updatable == {"confidence", "decay_rate", "tags", "metadata", "natural_form"}

\* the access bookkeeping of a row
AccessColumns == {"last_accessed", "access_count"}

\* the rows other than id, and every other table, are as before
OnlyRow(id) ==
    /\ DOMAIN clauses' = DOMAIN clauses
    /\ \A i \in Ids \ {id} : clauses'[i] = clauses[i]
    /\ UNCHANGED <<conflicts, decay_log, access_log, sysmeta>>

\* update of an unknown id answered null and changed nothing
UnknownIsNull ==
    last'.id \notin Ids
       => /\ last'.action = "null"
          /\ UNCHANGED <<clauses, conflicts, decay_log, access_log, sysmeta>>

\* the columns of `columns` hold what `fields` gives for them, or what they held
Written(id, columns, fields) ==
    \A f \in columns :
        clauses'[id][f] = IF f \in DOMAIN fields /\ last'.action = "updated"
                          THEN fields[f] ELSE clauses[id][f]

\* C30 as stated: update changes at most confidence, decay_rate, tags,
\* metadata and natural_form of the clause, to the values given; every other
\* column keeps its value, and an unknown id gives null and no change.
C30_UpdateFrameAsStated ==
    [][IsCall("update")
       => /\ UnknownIsNull
          /\ last'.id \in Ids
                => /\ OnlyRow(last'.id)
                   /\ Written(last'.id, Updatable, last'.arg)
                   /\ \A f \in DOMAIN clauses[last'.id] \ Updatable :
                         clauses'[last'.id][f] = clauses[last'.id][f]]_vars

\* C30: the same, where update, reading the clause through get before and
\* after its UPDATE, also sets last_accessed to the time of the call and adds
\* one to access_count for each read.
C30_UpdateFrame ==
    [][IsCall("update")
       => /\ UnknownIsNull
          /\ last'.id \in Ids
                => /\ OnlyRow(last'.id)
                   /\ Written(last'.id, Updatable, last'.arg)
                   /\ \A f \in DOMAIN clauses[last'.id] \ (Updatable \cup AccessColumns) :
                         clauses'[last'.id][f] = clauses[last'.id][f]
                   /\ clauses'[last'.id].last_accessed = now
                   /\ clauses'[last'.id].access_count
                         = clauses[last'.id].access_count
                           + (IF last'.action = "updated" THEN 2 ELSE 1)]_vars

\* C30 witness: an update that gave natural_form next to nine columns update
\* does not accept: natural_form is the given one, the subject is not.
C30_Witness ==
    /\ last.op = "update"
    /\ last.action = "updated"
    /\ {"natural_form", "subject", "valid_to"} \subseteq DOMAIN last.arg
    /\ clauses[last.id].natural_form = last.arg.natural_form
    /\ clauses[last.id].subject # last.arg.subject
    /\ clauses[last.id].valid_to # last.arg.valid_to

(* ------------------- access feedback, knowledge packs ------------------ *)

\* the clause rows the step deleted
Gone == Ids \ RowIds(clauses')

\* row k of the log is as it was inserted
Kept(log, after, k) == k \in DOMAIN after /\ after[k] = log[k]

\* row k of the log went with its clause
WentWithClause(log, after, k) ==
    /\ k \in DOMAIN after
    /\ ~IsRow(after[k])
    /\ log[k].clause_id \in Gone

\* row k of access_log differs at most in the feedback markAccessUseful gives
FeedbackOnly(k) ==
    /\ IsCall("markAccessUseful")
    /\ last'.id = k
    /\ IsRow(access_log'[k])
    /\ access_log'[k] = [access_log[k] EXCEPT
                            !.was_useful = access_log'[k].was_useful,
                            !.correction_id = access_log'[k].correction_id]

\* C28 as stated: decay_log and access_log are append-only: no operation
\* modifies or removes a row once it is inserted.
C28_AppendOnlyAsStated ==
    [][/\ \A k \in RowIds(access_log) : Kept(access_log, access_log', k)
       /\ \A k \in RowIds(decay_log) : Kept(decay_log, decay_log', k)]_vars

\* C28: a decay_log row stays as inserted until its clause is deleted, and
\* so does an access_log row, except for the was_useful and correction_id
\* that markAccessUseful sets on the row it names; a row is removed only
\* together with its clause.
C28_AppendOnly ==
    [][/\ \A k \in RowIds(access_log) :
             \/ Kept(access_log, access_log', k)
             \/ FeedbackOnly(k)
             \/ WentWithClause(access_log, access_log', k)
       /\ \A k \in RowIds(decay_log) :
             \/ Kept(decay_log, decay_log', k)
             \/ WentWithClause(decay_log, decay_log', k)]_vars

\* C28 witness: markAccessUseful marked a logged access as not useful and
\* named the clause that corrects it.
C28_Witness ==
    /\ last.op = "markAccessUseful"
    /\ last.action = "marked"
    /\ access_log[last.id].was_useful = Some(0)
    /\ access_log[last.id].correction_id # NULL
    /\ decay_log # << >>

\* the pack operations and the pack they name
PackOps == {"packs.install", "packs.update", "packs.remove"}

\* the rows carrying the tag of the pack the call named (update without a
\* pack: of any installed pack)
NamedPackRows ==
    IF last'.op = "packs.update"
    THEN UNION {PackRows(clauses, q.pack_id) :
                   q \in {u \in installed_packs :
                             \/ last'.arg.packId = NULL
                             \/ last'.arg.packId[1] = u.pack_id}}
    ELSE PackRows(clauses, last'.arg.packId)

CreatedRow(row, input) ==
    /\ row.valid_to = NULL
    /\ row.reinforcement_count = 0
    /\ row.access_count = 0
    /\ row.confidence = IF input.confidence = NULL THEN DefaultConfidence
                        ELSE Clamp(input.confidence[1])
    /\ row.decay_rate = IF input.decay_rate = NULL THEN DEFAULT_DECAY_RATES(input.type)
                        ELSE input.decay_rate[1]

\* C31: create(input) stores and returns a clause with a fresh id, valid_to
\* null, reinforcement_count 0, access_count 0, confidence 0.8 or the input's
\* clamped to [0, 1], and decay_rate the input's or the default of the type.
C31_CreateDefaults ==
    [][IsCall("create")
       => /\ last'.action = "created"
          /\ last'.newId \notin Ids
          /\ RowIds(clauses') = Ids \cup {last'.newId}
          /\ CreatedRow(clauses'[last'.newId], last'.arg)]_vars

(* ------------------------- ingestion, continued ------------------------ *)

\* the rows of processNewClause's SELECT whose object is the candidate's,
\* compared case-insensitively
IdenticalRead(cl, input) ==
    {i \in ExistingFor(cl, input) : toLowerCase(cl[i].object) = toLowerCase(input.object)}

\* C32: when one of the clauses processNewClause reads for the candidate's
\* (subject, predicate) has the candidate's object, compared
\* case-insensitively, the result is 'reinforced' and no row is inserted,
\* whatever the other clauses it reads are and in whatever order.
C32_IdenticalWins ==
    [][(IsCall("processNewClause") /\ IdenticalRead(clauses, last'.arg) # {})
          => /\ last'.action = "reinforced"
             /\ last'.id \in IdenticalRead(clauses, last'.arg)
             /\ Len(clauses') = Len(clauses)]_vars

\* The conflict records that reference the two clauses together.
ConflictsBetween(cf, i, j) ==
    {c \in DOMAIN cf : {cf[c].clause_a_id, cf[c].clause_b_id} = {i, j}}

\* C33: every pair of active clauses sharing (subject, predicate), on a
\* predicate in neither list and with different objects, is referenced
\* together by a Conflict record; a third contradicting candidate gets a
\* Conflict against each of the two clauses already active.
C33_EveryPairInConflict ==
    \A i \in ActiveIds : \A j \in ActiveIds :
        (/\ i # j
         /\ clauses[i].subject = clauses[j].subject
         /\ clauses[i].predicate = clauses[j].predicate
         /\ Neither(clauses[i].predicate)
         /\ clauses[i].object # clauses[j].object)
            => ConflictsBetween(conflicts, i, j) # {}

(* ---------------------- conflict resolution, continued ------------------ *)

\* C34: whenever resolveConflict returns resolved = true under newest_wins,
\* highest_confidence or merge_history, keptClauseId names a clause that is
\* active afterwards and the conflict's other clause is invalid afterwards,
\* also when several conflicts share a clause and are resolved in any order.
C34_KeptIsActive ==
    [][Resolving(NonManual)
       => LET c == last'.id
              kept == last'.otherId
              other == OtherClause(c, kept)
          IN  /\ kept \in {ClauseA(c), ClauseB(c)}
              /\ clauses'[kept].valid_to = NULL
              /\ clauses'[other].valid_to # NULL]_vars

(* --------------------- processNewClause calls in flight ----------------- *)

\* A call of processNewClause suspended at an await: what its continuation
\* does next, the row of the SELECT that decided, and the clause it created.
Suspended(step, old, input, clause, newId) ==
    [step |-> step, id |-> old, input |-> input, clause |-> clause, newId |-> newId]

\* processNewClause from its call to its first await that leaves a statement
\* on the store to be run: the SELECT, the classification of the first row
\* and the synchronous body of the first function called (create, invalidate,
\* or reinforce up to `await this.get(id)`).
ProcessBegin(input) ==
    /\ Called
    /\ \E old \in IF ExistingFor(clauses, input) = {} THEN {0}
                  ELSE ExistingFor(clauses, input) :
        LET relation == IF old = 0 THEN "none"
                        ELSE analyzeRelation(clauses[old], input)
        IN  CASE relation = "identical" ->
                    /\ clauses' = [clauses EXCEPT ![old] = Touched(@)]
                    /\ inflight' = Append(inflight,
                          Suspended("reinforce", old, input, clauses[old], 0))
                    /\ last' = Call("processNewClause.begin", old, input, "awaiting", 0, 0)
                    /\ UNCHANGED sysmeta
              [] relation = "supersession" ->
                    /\ clauses' = AfterInvalidate(clauses, old, "superseded")
                    /\ inflight' = Append(inflight,
                          Suspended("create", old, input, clauses[old], 0))
                    /\ last' = Call("processNewClause.begin", old, input, "awaiting", 0, 0)
                    /\ UNCHANGED sysmeta
              [] relation = "contradiction" /\ CreateOk(input) ->
                    /\ clauses' = AfterCreate(clauses, input)
                    /\ sysmeta' = [sysmeta EXCEPT !.total_clauses_extracted = @ + 1]
                    /\ inflight' = Append(inflight,
                          Suspended("createConflict", old, input, clauses[old], NextId))
                    /\ last' = Call("processNewClause.begin", old, input, "awaiting",
                                    NextId, 0)
              [] OTHER ->
                    IF CreateOk(input)
                    THEN /\ clauses' = AfterCreate(clauses, input)
                         /\ sysmeta' = [sysmeta EXCEPT !.total_clauses_extracted = @ + 1]
                         /\ last' = Call("processNewClause.begin", old, input, "insert",
                                         NextId, 0)
                         /\ UNCHANGED inflight
                    ELSE /\ last' = Call("processNewClause.begin", old, input, "error", 0, 0)
                         /\ UNCHANGED <<clauses, sysmeta, inflight>>
    /\ UNCHANGED <<conflicts, decay_log, access_log, conflictConfig, dedupConfig,
                   decayConfig, scheduler, installed_packs, now>>

\* The continuation of the oldest suspended call: the UPDATE and the logs of
\* reinforce, the create after invalidate, or createConflict after create.
ProcessResume ==
    /\ inflight # << >>
    /\ inflight' = Tail(inflight)
    /\ LET p == Head(inflight) IN
       CASE p.step = "reinforce" ->
                LET e == ReinforceWrite(clauses, decay_log, access_log, p.id, p.clause,
                                        DefaultReinforceAmount)
                IN  /\ clauses' = e.clauses
                    /\ decay_log' = e.decay_log
                    /\ access_log' = e.access_log
                    /\ last' = Call("processNewClause.end", p.id, p.input,
                                    IF e.ok THEN "reinforced" ELSE "error", 0, 0)
                    /\ UNCHANGED <<conflicts, sysmeta>>
         [] p.step = "create" ->
                IF CreateOk(p.input)
                THEN /\ clauses' = AfterCreate(clauses, p.input)
                     /\ sysmeta' = [sysmeta EXCEPT !.total_clauses_extracted = @ + 1]
                     /\ last' = Call("processNewClause.end", p.id, p.input, "superseded",
                                     NextId, 0)
                     /\ UNCHANGED <<conflicts, decay_log, access_log>>
                ELSE /\ last' = Call("processNewClause.end", p.id, p.input, "error", 0, 0)
                     /\ UNCHANGED <<clauses, conflicts, decay_log, access_log, sysmeta>>
         [] OTHER ->
                /\ conflicts' = Append(conflicts, NewConflict(p.id, p.newId))
                /\ sysmeta' = [sysmeta EXCEPT !.total_conflicts_detected = @ + 1]
                /\ last' = Call("processNewClause.end", p.id, p.input, "conflict",
                                p.newId, Len(conflicts) + 1)
                /\ UNCHANGED <<clauses, decay_log, access_log>>
    /\ UNCHANGED <<conflictConfig, dedupConfig, decayConfig, scheduler, installed_packs, now, calls>>

\* Candidates of the default confidence and above: three cities on a
\* singleton predicate, one of them also in another case, and two objects on
\* a predicate in neither list.
FlightCandidates ==
    {Candidate("fact", "lives_in", "Seattle", <<"User", "lives", "in", "Seattle">>, Some(9000)),
     Candidate("fact", "lives_in", "seattle", <<"User", "lives", "in", "seattle">>, NULL),
     Candidate("fact", "lives_in", "Denver", <<"User", "lives", "in", "Denver">>, NULL),
     Candidate("fact", "lives_in", "Austin", <<"User", "lives", "in", "Austin">>, NULL),
     Candidate("preference", "prefers", "Tea", <<"User", "prefers", "Tea">>, NULL),
     Candidate("preference", "prefers", "window",
               <<"User", "prefers", "window", "seats">>, NULL)}

NextFlight ==
    \/ \E input \in FlightCandidates : ProcessBegin(input)
    \/ ProcessResume
    \/ \E d \in TickDays : Tick(d)

SpecFlight == Init /\ [][NextFlight]_vars

\* C35: the singleton invariant holds under concurrent ingestion: with one
\* active clause for (subject, singleton predicate) and calls of
\* processNewClause with further objects in flight, interleaved at their
\* awaits, at most one active clause for (subject, predicate) remains once
\* the calls have returned.
C35_SingletonAfterFlight ==
    inflight = << >>
        => \A i \in ActiveIds : \A j \in ActiveIds :
              (/\ clauses[i].predicate \in SINGLETON_PREDICATES
               /\ clauses[i].predicate = clauses[j].predicate
               /\ clauses[i].subject = clauses[j].subject) => i = j

(* ------------------------------- extract ------------------------------- *)

\* The loop of OMLite.extract over the extracted clauses, from tables st on:
\* the tables it leaves and the clauses it returns (those of the calls of
\* processNewClause that answered 'insert' or 'superseded').
RECURSIVE ExtractClauses(_, _, _)
ExtractClauses(extracted, st, results) ==
    IF extracted = << >> THEN {[st |-> st, clauses |-> results]}
    ELSE UNION {ExtractClauses(Tail(extracted), r.st,
                               IF r.action \in {"insert", "superseded"}
                               THEN Append(results, r.newId) ELSE results) :
                   r \in ProcessOutcomes(st, Head(extracted))}

\* OMLite.extract(content) where the extractor finds `extracted` in content
Extract(extracted) ==
    /\ Called
    /\ \E r \in ExtractClauses(extracted, Stored, << >>) :
          /\ Becomes(r.st)
          /\ last' = Call("extract", 0, extracted, "extracted", r.clauses, 0)
    /\ UNCHANGED <<conflictConfig, dedupConfig, decayConfig, scheduler, inflight,
                   installed_packs, now>>

\* What the extractor finds in a text: one or two clauses out of these.
ExtractCandidates ==
    {Candidate("preference", "prefers", "Tea", <<"User", "prefers", "Tea">>, NULL),
     Candidate("preference", "prefers", "window",
               <<"User", "prefers", "window", "seats">>, NULL),
     Candidate("preference", "likes", "Tea", <<"User", "likes", "Tea">>, NULL)}

Extractions ==
    {<<c>> : c \in ExtractCandidates}
        \cup {p \in ExtractCandidates \X ExtractCandidates : p[1] # p[2]}

\* a pack of one claim, on a predicate in neither list
ExtractPackIds == {"seats"}
ExtractPackFiles ==
    [q \in ExtractPackIds |->
        <<PackClaim("preference", "prefers", "window",
                    <<"User", "prefers", "window", "seats">>, NULL)>>]

NextExtract ==
    \/ \E extracted \in Extractions : Extract(extracted)
    \/ \E packId \in ExtractPackIds, options \in PackOptions :
          PackInstall(packId, ExtractPackFiles, options)
    \/ \E packId \in ExtractPackIds : PackRemove(packId)
    \/ \E d \in TickDays : Tick(d)

SpecExtract == Init /\ [][NextExtract]_vars

\* findDuplicate matches the candidate whatever the order of the rows it reads
AlwaysMatched(input) ==
    \A dupCheck \in findDuplicate(clauses, dedupConfig, input) : dupCheck.found

\* the step is extract with the one candidate `input`, or the first install
\* of a pack whose one claim makes the candidate `input`
Ingests(input) ==
    \/ IsCall("extract") /\ last'.arg = <<input>>
    \/ /\ IsCall("packs.install")
       /\ last'.action = "installed"
       /\ ~Installed(installed_packs, last'.arg.packId)
       /\ last'.arg.packId \in ExtractPackIds
       /\ input = PackClaimInput(last'.arg.packId, ExtractPackFiles[last'.arg.packId][1])

\* C36: every candidate ingested through OMLite.extract and PackLoader.install
\* passes the Deduplicator before conflict classification: a candidate that
\* findDuplicate matches in the store never reaches create, so the call adds no row.
C36_DuplicatesNeverCreated ==
    [][\A input \in ExtractCandidates
                      \cup {PackClaimInput(q, ExtractPackFiles[q][1]) : q \in ExtractPackIds} :
          (Ingests(input) /\ AlwaysMatched(input)) => Len(clauses') = Len(clauses)]_vars

(* --------------------------- the decay log ----------------------------- *)

\* the decay_log rows the step appends for clause i
AppendedFor(i) ==
    {k \in DOMAIN decay_log' :
        /\ k > Len(decay_log)
        /\ IsRow(decay_log'[k])
        /\ decay_log'[k].clause_id = i}

\* C37: every persisted change of a clause's confidence (by reinforce,
\* adjustConfidence, scheduled decay, archiving by decay, or update) is
\* recorded by one decay_log row whose previous_confidence is the value
\* before the change and whose new_confidence is the value after it.
C37_ConfidenceChangesLogged ==
    [][\A i \in Ids :
          (i \in RowIds(clauses') /\ clauses'[i].confidence # clauses[i].confidence)
             => \E k \in AppendedFor(i) :
                   /\ decay_log'[k].previous_confidence = clauses[i].confidence
                   /\ decay_log'[k].new_confidence = clauses'[i].confidence]_vars

(* ------------------------- the status of a conflict --------------------- *)

\* C38: a conflict's status only moves from pending to a resolved status and
\* never changes again: no step removes a conflict or changes one that is not
\* pending, and resolveConflict on a conflict that is not pending or does
\* not exist answers 'not_found_or_already_resolved' and changes neither a
\* conflict nor a clause.
C38_ResolvedIsFinal ==
    [][/\ DOMAIN conflicts \subseteq DOMAIN conflicts'
       /\ \A c \in DOMAIN conflicts :
             /\ conflicts[c].status # "pending" => conflicts'[c] = conflicts[c]
             /\ conflicts'[c].status # conflicts[c].status
                   => conflicts'[c].status \in {"auto_resolved", "user_resolved", "ignored"}
       /\ (IsCall("resolveConflict") /\ last'.id \notin PendingConflicts)
             => /\ last'.action = "not_found_or_already_resolved"
                /\ last'.otherId = 0
                /\ conflicts' = conflicts
                /\ clauses' = clauses]_vars

\* C38 witness: resolveConflict was called on a conflict that an earlier call
\* had resolved; it answered 'not_found_or_already_resolved'.
C38_Witness ==
    /\ last.op = "resolveConflict"
    /\ last.action = "not_found_or_already_resolved"
    /\ last.id \in DOMAIN conflicts
    /\ conflicts[last.id].status = "auto_resolved"
    /\ conflicts[last.id].resolution # NULL

(* ---------------------- estimateExpirationDays ------------------------- *)

\* Math.ceil(num / den) for num >= 0, den > 0
CeilDiv(num, den) == (num + den - 1) \div den

\* DecayRunner.estimateExpirationDays({confidence, decayRate,
\* reinforcementCount}): NULL is the null it returns, Some(d) a number of
\* days.  days = 30 * (confidence - minConfidence) / (confidence * effectiveRate)
\* with effectiveRate = decayRate / (1 + ln(reinforcementCount + 1)).
estimateExpirationDays(confidence, decayRate, reinforcementCount) ==
    IF confidence <= decayConfig.minConfidence THEN Some(0)
    ELSE IF decayRate <= 0 THEN NULL
    ELSE Some(CeilDiv(DaysPerTimeFactor * (confidence - decayConfig.minConfidence)
                          * (Scale + LnPlusOne(reinforcementCount)),
                      confidence * decayRate))

\* the candidate the clause was created from
CreatedFrom(row) == CHOOSE c \in DecayCandidates : c.object = row.object

\* the estimate for the clause as it was created
EstimateAtCreation(row) ==
    estimateExpirationDays(CreatedFrom(row).confidence[1], row.decay_rate, 0)

\* the clause was never reinforced nor read, and a decay run archived it
ArchivedUntouched(row) ==
    /\ row.reinforcement_count = 0
    /\ row.access_count = 0
    /\ row.valid_to # NULL
    /\ row.metadata.archived_reason # NULL

\* C39: absent reinforcement and access, a clause with confidence above
\* minConfidence is not archived by decay runs that all happen earlier than
\* estimateExpirationDays(clause) days after its last access, however many
\* runs there are; estimateExpirationDays is 0 for a confidence at or below
\* minConfidence and null for a decay rate of 0.
C39_NotArchivedBeforeEstimate ==
    \A i \in Ids :
        /\ (ArchivedUntouched(clauses[i])
               /\ CreatedFrom(clauses[i]).confidence[1] > decayConfig.minConfidence)
              => /\ EstimateAtCreation(clauses[i]) # NULL
                 /\ clauses[i].valid_to[1] - clauses[i].last_accessed
                       >= EstimateAtCreation(clauses[i])[1]
        /\ clauses[i].confidence <= decayConfig.minConfidence
              => estimateExpirationDays(clauses[i].confidence, clauses[i].decay_rate,
                                        clauses[i].reinforcement_count) = Some(0)
        /\ (clauses[i].confidence > decayConfig.minConfidence /\ clauses[i].decay_rate = 0)
              => estimateExpirationDays(clauses[i].confidence, clauses[i].decay_rate,
                                        clauses[i].reinforcement_count) = NULL

(* ------------------------------ Scheduler ------------------------------ *)

\* setDecayRunner, setBackupManager, setClauseStore
setDecayRunner ==
    /\ ~scheduler.decayRunner
    /\ scheduler' = [scheduler EXCEPT !.decayRunner = TRUE]
    /\ last' = NoCall
    /\ UNCHANGED <<clauses, conflicts, decay_log, access_log, sysmeta, conflictConfig,
                   dedupConfig, decayConfig, inflight, installed_packs, now, calls>>

setBackupManager ==
    /\ ~scheduler.backupManager
    /\ scheduler' = [scheduler EXCEPT !.backupManager = TRUE]
    /\ last' = NoCall
    /\ UNCHANGED <<clauses, conflicts, decay_log, access_log, sysmeta, conflictConfig,
                   dedupConfig, decayConfig, inflight, installed_packs, now, calls>>

setClauseStore ==
    /\ ~scheduler.clauseStore
    /\ scheduler' = [scheduler EXCEPT !.clauseStore = TRUE]
    /\ last' = NoCall
    /\ UNCHANGED <<clauses, conflicts, decay_log, access_log, sysmeta, conflictConfig,
                   dedupConfig, decayConfig, inflight, installed_packs, now, calls>>

\* a timer armed in the host: the timeout of the first decay run, or the
\* interval of a job
Timer(handle, kind, job) == [handle |-> handle, kind |-> kind, job |-> job]

Job(id) == [id |-> id, lastRun |-> NULL]

\* the jobs start() schedules: enabled in the config, collaborator set
Scheduled(s) ==
    {j \in JobIds :
        \/ j = "decay" /\ s.config.decayEnabled /\ s.decayRunner
        \/ j = "backup" /\ s.config.backupEnabled /\ s.backupManager
        \/ j = "retention" /\ s.config.retentionEnabled /\ s.clauseStore}

\* The scheduler after start() on one that is not running.  The handle of
\* the decay job's setTimeout is not kept; the handles of the two
\* setInterval are.
Started(s) ==
    LET on == Scheduled(s)
        armed == {Timer(s.handles + 1, "timeout", "decay") : j \in on \cap {"decay"}}
                   \cup {Timer(s.handles + 2, "interval", "backup") : j \in on \cap {"backup"}}
                   \cup {Timer(s.handles + 3, "interval", "retention") :
                            j \in on \cap {"retention"}}
    IN  [s EXCEPT !.isRunning = TRUE,
                  !.jobs = {q \in s.jobs : q.id \notin on} \cup {Job(j) : j \in on},
                  !.backupTimer = IF "backup" \in on THEN Some(s.handles + 2) ELSE @,
                  !.retentionTimer = IF "retention" \in on THEN Some(s.handles + 3) ELSE @,
                  !.timers = @ \cup armed,
                  !.handles = @ + 3]

SchedulerStart ==
    /\ Called
    /\ IF scheduler.isRunning
       THEN /\ UNCHANGED scheduler
            /\ last' = Call("scheduler.start", 0, << >>, "running", 0, 0)
       ELSE /\ scheduler' = Started(scheduler)
            /\ last' = Call("scheduler.start", 0, << >>, "started", 0, 0)
    /\ UNCHANGED <<clauses, conflicts, decay_log, access_log, sysmeta, conflictConfig,
                   dedupConfig, decayConfig, inflight, installed_packs, now>>

\* clearInterval on the handles the scheduler holds
Cleared(s) ==
    {t \in s.timers : Some(t.handle) \notin {s.decayTimer, s.backupTimer, s.retentionTimer}}

Stopped(s) ==
    [s EXCEPT !.decayTimer = NULL, !.backupTimer = NULL, !.retentionTimer = NULL,
              !.isRunning = FALSE, !.jobs = {}, !.timers = Cleared(s)]

SchedulerStop ==
    /\ Called
    /\ scheduler' = Stopped(scheduler)
    /\ last' = Call("scheduler.stop", 0, << >>, "stopped", 0, 0)
    /\ UNCHANGED <<clauses, conflicts, decay_log, access_log, sysmeta, conflictConfig,
                   dedupConfig, decayConfig, inflight, installed_packs, now>>

\* updateJobStatus(jobId, true)
JobsAfterRun(jobs, jobId) ==
    {IF q.id = jobId THEN [q EXCEPT !.lastRun = Some(now)] ELSE q : q \in jobs}

\* The host fires timer t.  The timeout of the decay job runs the job and
\* arms the job's interval, keeping its handle in decayTimer; an interval
\* runs its job and stays armed.  runDecayJob calls DecayRunner.run();
\* the backup and the retention job write nothing of the clause store.
TimerFires(t) ==
    /\ Called
    /\ t \in scheduler.timers
    /\ IF t.job = "decay" /\ scheduler.decayRunner
       THEN DecayRunEffect(FALSE)
       ELSE UNCHANGED <<clauses, decay_log, sysmeta>>
    /\ scheduler' =
          [scheduler EXCEPT
              !.jobs = JobsAfterRun(@, t.job),
              !.decayTimer = IF t.kind = "timeout" THEN Some(scheduler.handles + 1) ELSE @,
              !.timers = IF t.kind = "timeout"
                         THEN (@ \ {t}) \cup {Timer(scheduler.handles + 1, "interval", "decay")}
                         ELSE @,
              !.handles = IF t.kind = "timeout" THEN @ + 1 ELSE @]
    /\ last' = Call("scheduler.timer", t.handle, t.job, "ran", 0, 0)
    /\ UNCHANGED <<conflicts, access_log, conflictConfig, dedupConfig, decayConfig,
                   inflight, installed_packs, now>>

SchedulerCandidates ==
    {Candidate("preference", "likes", "Tea", <<"User", "likes", "Tea">>, NULL)}

NextScheduler ==
    \/ setDecayRunner
    \/ setBackupManager
    \/ setClauseStore
    \/ SchedulerStart
    \/ SchedulerStop
    \/ \E t \in scheduler.timers : TimerFires(t)
    \/ \E input \in SchedulerCandidates : NotStored(input) /\ Create(input)
    \/ \E d \in TickDays : Tick(d)

SpecScheduler == Init /\ [][NextScheduler]_vars

\* the timers armed for job j
ArmedFor(s, j) == {t \in s.timers : t.job = j}

\* C40: after Scheduler.stop() returns, no scheduled job (decay, backup,
\* retention) runs and no timer remains armed until the next start(); start()
\* on a running scheduler changes nothing; any sequence of start and stop
\* leaves at most one armed timer per job.
C40_StopQuiesces ==
    [][/\ ~scheduler'.isRunning => scheduler'.timers = {}
       /\ IsCall("scheduler.timer") => scheduler.isRunning
       /\ (IsCall("scheduler.start") /\ scheduler.isRunning) => scheduler' = scheduler
       /\ \A j \in JobIds : Cardinality(ArmedFor(scheduler', j)) <= 1]_vars

====
